---- MODULE Spec2Model ----
(***************************************************************************)
(* Path-tracing engine of the two wireframe plugins:                       *)
(*   "poly5" : src/unnamed/part_002  (five Eulerian solids, no culling)    *)
(*   "cube"  : src/plugins/sequencer_v1/noculling.cpp (cube, no culling)   *)
(* and the MIDI pattern generator, src/plugins/MyFirstPlugin/plugin.cpp.   *)
(*                                                                         *)
(* Real-valued quantities (phase, fraction, blank fractions) are the       *)
(* code's floats.  They are represented exactly, as integer multiples of   *)
(* 1/One, where One is the least common multiple of the sample rate and    *)
(* of 10^6 (the 1e-6f factor of the blanking computation): every value the *)
(* code computes from integer parameters is then an integer.  Rounding of  *)
(* the 32-bit float operations is not represented there; the phase         *)
(* accumulation is given a second time in float32 arithmetic (f32).        *)
(*                                                                         *)
(* Specifications:                                                         *)
(*   Spec      both plugins: blocks and Frequency, Solid, BlankWindow,     *)
(*             BlankPhase changes                                          *)
(*   SpecScan  fixed settings, whole cycles, dark samples counted          *)
(*   SpecAmp   cube: the amplitude modulator and its parameters            *)
(*   SpecXY    poly5: rotation, camera and projection of the octahedron    *)
(*   SpecFloat the phase in float32 arithmetic                             *)
(*   SpecHost  parameterChanged and step() store by store, as the host     *)
(*             orders the calls                                            *)
(*   SpecSplit two consecutive blocks against one block of their frames    *)
(*   SpecFine  cube: the modulator phase under AmpCorse and AmpFine        *)
(*   SpecQuant cube: quantisation and the projection's divisor             *)
(*   SpecDuo   two poly5 instances over one Geometry Store                 *)
(*   SpecSeq   the MIDI pattern generator: clock, sequences, parameters    *)
(***************************************************************************)
EXTENDS Integers, Sequences, FiniteSets, TLC

\* ------------------------------------------------------------------ helpers

\* A C array initialiser: the 0-based array holding the listed values.
Arr(s) == [i \in 0..(Len(s) - 1) |-> s[i + 1]]

\* memcpy(dst + off, src, n): the n elements of src land at dst[off..off+n-1].
Memcpy(dst, off, src, n) ==
  [k \in DOMAIN dst |-> IF off <= k /\ k < off + n THEN src[k - off] ELSE dst[k]]

RECURSIVE GCD(_, _)
GCD(a, b) == IF b = 0 THEN a ELSE GCD(b, a % b)

\* ------------------------------------------------------------------ numbers

\* NT_globals.sampleRate, the host's sample rate in Hz.
SampleRate == 48000

\* The factor 1e-6f of the blanking computation, as its reciprocal.
Micro == 1000000

\* The value 1.0f: reals are integer multiples of 1/One.
One == (SampleRate * (Micro \div GCD(SampleRate, Micro)))

\* 0.5f, the saturation cap of blankFrac.
Half == One \div 2

\* The constant freqRef = 50.0f of the cube plugin.
freqRef == 50

\* Intensity levels written to the intensity bus: 5.0f and 0.0f.
IntensityOn == 5

IntensityOff == 0

\* ---------------------------------------------------- five-solid geometry

numVertsArr == Arr(<<6, 12, 14, 20, 24>>)

vertOffset == Arr(<<0, 6, 18, 32, 52>>)

numEdgesArr == Arr(<<12, 24, 24, 30, 36>>)

edgesOctahedron ==
  Arr(<< 0,  2,   2,  4,   4,  0,
         0,  5,   5,  2,   2,  0,
         4,  5,   5,  3,   3,  4,
         1,  2,   2,  3,   3,  1 >>)

edgesCuboctahedron ==
  Arr(<< 0,  4,   0,  5,   0,  8,   0,  9,
         1,  4,   1,  5,   1, 10,   1, 11,
         2,  6,   2,  7,   2, 10,   2, 11,
         3,  6,   3,  7,   3,  8,   3,  9,
         4,  8,   4, 11,   5,  9,   5, 10,
         6,  9,   6, 10,   7,  8,   7, 11 >>)

edgesRhdDodec ==
  Arr(<< 0,  6,   0, 10,   0,  2,    1,  7,   1, 11,   1,  3,
         2,  6,   2,  8,   2, 10,    3,  7,   3,  9,   3, 11,
         4,  8,   4, 10,   4,  6,    5,  9,   5, 11,   5,  7,
         6,  8,   7,  9,  10, 12,   11, 13,  12,  6,   13,  7 >>)

edgesRhdIcosahedron ==
  Arr(<< 0,  4,   4, 16,  16,  8,    8, 12,  12,  0,
         0, 12,  12,  1,   1,  8,    1,  9,   9, 13,
        13,  0,   1,  5,   5, 17,   17,  9,   2,  5,
         5, 15,  15, 10,  10, 14,   14,  2,   2, 10,
         3,  6,   6, 18,  18, 11,   11, 19,  19,  3,
         2,  3,   3, 14,  14,  6,    6, 16,   7, 15 >>)

edgesTruncOctahedron ==
  Arr(<< 0,  1,    0,  4,   0,  6,     1,  5,   1,  7,   2,  3,
         2,  6,    2,  8,   3,  7,     4,  8,   4, 10,   5,  9,
         6, 10,    6, 14,   7,  9,     8, 16,   8, 12,   9, 17,
        10, 12,   10, 18,  11, 13,    12, 16,  12, 20,  13, 17,
        14, 18,   14, 22,  15, 19,    16, 18,  16, 24,  17, 23,
        18, 20,   18, 24,  19, 23,    20, 22,  20, 24,  21, 23 >>)

eulerOcta == Arr(<<0, 1, 2, 3, 4, 5, 6, 7, 8, 9, 10, 11>>)

eulerCubo ==
  Arr(<< 0,  1,  2,  3,  4,  5,  6,  7,  8,  9, 10, 11,
        12, 13, 14, 15, 16, 17, 18, 19, 20, 21, 22, 23 >>)

eulerRhdDodec ==
  Arr(<< 0,  1,  2,  3,  4,  5,  6,  7,  8,  9, 10, 11,
        12, 13, 14, 15, 16, 17, 18, 19, 20, 21, 22, 23 >>)

\* eulerRhdIcosa with a plausible defect: the last entry repeats edge 28 and omits edge 29.
eulerRhdIcosaRepeated ==
  Arr(<< 0,  1,  2,  3,  4,  5,  6,  7,  8,  9,
        10, 11, 12, 13, 14, 15, 16, 17, 18, 19,
        20, 21, 22, 23, 24, 25, 26, 27, 28, 28 >>)

eulerRhdIcosa ==
  Arr(<< 0,  1,  2,  3,  4,  5,  6,  7,  8,  9,
        10, 11, 12, 13, 14, 15, 16, 17, 18, 19,
        20, 21, 22, 23, 24, 25, 26, 27, 28, 29 >>)

eulerTruncOcta ==
  Arr(<< 0,  1,  2,  3,  4,  5,  6,  7,  8,  9, 10, 11,
        12, 13, 14, 15, 16, 17, 18, 19, 20, 21, 22, 23,
        24, 25, 26, 27, 28, 29, 30, 31, 32, 33, 34, 35 >>)

numEdgesAll == Arr(<<12, 24, 24, 30, 36>>)

edgeOffsetAll == Arr(<<0, 12, 36, 60, 90>>)

eulerOffsetAll == Arr(<<0, 12, 36, 60, 90>>)

eulerLengthAll == Arr(<<12, 24, 24, 30, 36>>)

\* Number of vertices copied by initialise(): totalVerts.
totalVerts ==
  numVertsArr[0] + numVertsArr[1] + numVertsArr[2] + numVertsArr[3] + numVertsArr[4]

\* A byte of the shared DRAM that initialise() never wrote.
Unwritten == -1

\* initialise(), step 2: the five edge tables copied into sharedEdges
\* (126 * 2 bytes lie between sharedEdges and sharedEulerOrder).
sharedEdges ==
  LET b0 == [k \in 0..(126 * 2 - 1) |-> Unwritten]
      b1 == Memcpy(b0, edgeOffsetAll[0] * 2, edgesOctahedron,      12 * 2)
      b2 == Memcpy(b1, edgeOffsetAll[1] * 2, edgesCuboctahedron,   24 * 2)
      b3 == Memcpy(b2, edgeOffsetAll[2] * 2, edgesRhdDodec,        24 * 2)
      b4 == Memcpy(b3, edgeOffsetAll[3] * 2, edgesRhdIcosahedron,  30 * 2)
  IN  Memcpy(b4, edgeOffsetAll[4] * 2, edgesTruncOctahedron, 36 * 2)

\* initialise(), step 3: the five traversal orders copied into sharedEulerOrder.
sharedEulerOrder ==
  LET b0 == [k \in 0..(126 - 1) |-> Unwritten]
      b1 == Memcpy(b0, eulerOffsetAll[0], eulerOcta,      12)
      b2 == Memcpy(b1, eulerOffsetAll[1], eulerCubo,      24)
      b3 == Memcpy(b2, eulerOffsetAll[2], eulerRhdDodec,  24)
      b4 == Memcpy(b3, eulerOffsetAll[3], eulerRhdIcosa,  30)
  IN  Memcpy(b4, eulerOffsetAll[4], eulerTruncOcta, 36)

\* ------------------------------------------------------------ cube geometry

rawCubeVerts ==
  Arr(<< -1, -1, -1,
          1, -1, -1,
          1,  1, -1,
         -1,  1, -1,
         -1, -1,  1,
          1, -1,  1,
          1,  1,  1,
         -1,  1,  1 >>)

Segment(a, b, draw) == [a |-> a, b |-> b, draw |-> draw]

\* cubeSegments with a plausible defect: the reposition move 4 -> 1 is flagged draw.
cubeSegmentsDiagonalDrawn ==
  Arr(<< Segment(0,1,1), Segment(1,2,1), Segment(2,3,1), Segment(3,0,1),
         Segment(0,4,1), Segment(4,5,1), Segment(5,6,1), Segment(6,7,1), Segment(7,4,1),
         Segment(4,1,1), Segment(1,5,1), Segment(5,2,0), Segment(2,6,1), Segment(6,3,0),
         Segment(3,7,1), Segment(7,0,0) >>)

cubeSegments ==
  Arr(<< Segment(0,1,1), Segment(1,2,1), Segment(2,3,1), Segment(3,0,1),
         Segment(0,4,1), Segment(4,5,1), Segment(5,6,1), Segment(6,7,1), Segment(7,4,1),
         Segment(4,1,0), Segment(1,5,1), Segment(5,2,0), Segment(2,6,1), Segment(6,3,0),
         Segment(3,7,1), Segment(7,0,0) >>)

numSegments == Cardinality(DOMAIN cubeSegments)

\* modCourseStrings[]: each label as <<sign, number>>, "/4" being <<"/", 4>>,
\* "x2" being <<"x", 2>> and the label "0" being <<"", 0>>.
modCourseStrings ==
  Arr(<< <<"/", 4>>, <<"/", 3>>, <<"/", 2>>, <<"", 0>>,
       <<"x", 2>>, <<"x", 3>>, <<"x", 4>>, <<"x", 5>>, <<"x", 6>>, <<"x", 7>>, <<"x", 8>>, <<"x", 9>>,
       <<"x", 10>>, <<"x", 11>>, <<"x", 12>>, <<"x", 13>>, <<"x", 14>>, <<"x", 15>>, <<"x", 16>>, <<"x", 17>>,
       <<"x", 18>>, <<"x", 19>>, <<"x", 20>>, <<"x", 21>>, <<"x", 22>>, <<"x", 23>>, <<"x", 24>>, <<"x", 25>>,
       <<"x", 26>>, <<"x", 27>>, <<"x", 28>>, <<"x", 29>>, <<"x", 30>>, <<"x", 31>>, <<"x", 32>> >>)

\* ------------------------------------------------------------------- bounds

\* Largest numFramesBy4 the host passes to step() (a block has 4 * numFramesBy4 frames).
MaxFramesBy4 == 1

\* Values of the Frequency parameter (declared range 1..1000 Hz) that are tried.
FreqVals == {50, 1000}

\* Values of the Solid parameter (declared range 0..499) that are tried.
SolidVals == {0, 150, 200, 399, 499}

\* Values of BlankWindow (0..1000 us) and BlankPhase (-1000..+1000 us) that are tried.
BlankWindowVals == {0, 10, 1000}

BlankPhaseVals == {-1000, 0, 1000}

Plugins == {"poly5", "cube"}

\* -------------------------------------------------------------------- state

VARIABLES
  plugin,          \* which of the two plugins this instance belongs to
  phase,           \* inst->phase
  freq_Hz,         \* inst->freq_Hz
  solidParam,      \* inst->solidParam (poly5 only)
  blankWindow_us,  \* inst->blankWindow_us
  blankPhase_us,   \* inst->blankPhase_us
  blk,             \* the most recent call, if it was step(): its per-sample values
  tick,            \* samples processed since phase was 0, parameters unchanged; -1: not tracked
  scan,            \* the count of consecutive dark samples on drawn segments, when it is kept
  amp,             \* cube: ampModAmt (as raw), ampCorseIdx, ampFine, ampWave, ampPhaseOffset (as raw), ampPhase
  ampLog,          \* cube: the modulator's phase and multiplier at each sample of the last block
  rot,             \* sinX .. cosZ, cameraDist, projectionMode, polarity
  xyLog,           \* poly5, octahedron: the point and the X, Y outputs of the last block, when kept
  f32,             \* the phase accumulation in float32 arithmetic (freq_Hz, phase, and an observer)
  host,            \* the calls in progress: samples left in step(), the store parameterChanged
                   \* still has to make, and the cached fields each sample of the block read
  quant,           \* cube: inst->resolution, and the divisors and outputs of the last block, when kept
  split,           \* the block before the last one and the phases it started from, when kept
  duo,             \* two poly5 instances over one Geometry Store, when they are followed
  seq              \* the MIDI pattern generator (struct Plugin), when it is followed

\* The variables of the exact-arithmetic model.
exactVars ==
  <<plugin, phase, freq_Hz, solidParam, blankWindow_us, blankPhase_us, blk, tick, scan,
    amp, ampLog, rot, xyLog, quant, split>>

\* The variables of the specifications that follow more than one instance
\* or another plugin; they rest at a constant everywhere else.
otherVars == <<duo, seq>>

vars == <<exactVars, f32, host, otherVars>>

\* ------------------------------------------------------- step(): per block

\* SolidIndex with a plausible defect: the quotient is rounded to nearest.
SolidIndexRounded(sp) == LET s == (sp + 50) \div 100 IN IF s > 4 THEN 4 ELSE s

\* int sParam = inst->solidParam / 100; if (sParam > 4) sParam = 4;
SolidIndex(sp) == LET s == sp \div 100 IN IF s > 4 THEN 4 ELSE s

\* eLen: numEdgesArr[sParam] in poly5, numSegments in the cube plugin.
ELen(pl, sp) == IF pl = "cube" THEN numSegments ELSE numEdgesArr[SolidIndex(sp)]

\* BlankRefFreq with a plausible defect: the cube plugin uses the live frequency too.
BlankRefFreqLive(pl, f) == f

\* The frequency the blank fractions are computed from: the live frequency in
\* poly5, the constant freqRef in the cube plugin.
BlankRefFreq(pl, f) == IF pl = "cube" THEN freqRef ELSE f

\* BlankFrac with a plausible defect: the saturation at 0.5 is missing.
BlankFracUncapped(w, f, eLen) == w * f * eLen * (One \div Micro)

\* BlankFrac with a plausible defect: the factor eLen is missing (a fraction of
\* the cycle instead of a fraction of the edge).
BlankFracNoLen(w, f, eLen) ==
  LET b == w * f * (One \div Micro) IN IF b > Half THEN Half ELSE b

\* blankFrac = blankWindow_us * 1e-6f * f * eLen; if (blankFrac > 0.5f) blankFrac = 0.5f;
BlankFrac(w, f, eLen) ==
  LET b == w * f * eLen * (One \div Micro) IN IF b > Half THEN Half ELSE b

\* shiftFrac = blankPhase_us * 1e-6f * f * eLen;
ShiftFrac(ph, f, eLen) == ph * f * eLen * (One \div Micro)

\* ------------------------------------------------------ step(): per sample

\* freq / fs
PhaseInc(f) == f * (One \div SampleRate)

\* AdvancePhase with a plausible defect: the wrap test is > instead of >=.
AdvancePhaseStrict(ph, inc) == LET s == ph + inc IN IF s > One THEN s - One ELSE s

\* phase += (freq / fs); if (phase >= 1.0f) phase -= 1.0f;
AdvancePhase(ph, inc) == LET s == ph + inc IN IF s >= One THEN s - One ELSE s

\* PhaseAfter with a plausible defect: the first sample of a block is taken
\* at the loaded phase, and the phase stored is the phase of the last sample.
RECURSIVE PhaseAfterLate(_, _, _)
PhaseAfterLate(ph, inc, j) ==
  IF j <= 1 THEN ph ELSE AdvancePhase(PhaseAfterLate(ph, inc, j - 1), inc)

\* The phase after j samples of one block.
RECURSIVE PhaseAfter(_, _, _)
PhaseAfter(ph, inc, j) ==
  IF j = 0 THEN ph ELSE AdvancePhase(PhaseAfter(ph, inc, j - 1), inc)

\* float ePos = phase * eLen;
EdgePos(ph, eLen) == ph * eLen

\* EdgeIdx with a plausible defect: the position is rounded to nearest instead of floored.
EdgeIdxRounded(ePos, eLen) ==
  LET i == (ePos + Half) \div One IN IF i >= eLen THEN eLen - 1 ELSE i

\* int idx = (int)floorf(ePos); if (idx >= eLen) idx = eLen - 1;
EdgeIdx(ePos, eLen) == LET i == ePos \div One IN IF i >= eLen THEN eLen - 1 ELSE i

\* float frac = ePos - (float)idx;
Frac(ePos, idx) == ePos - idx * One

\* fShift = frac + shiftFrac; if (fShift < 0) fShift += 1; if (fShift >= 1) fShift -= 1;
FShift(frac, shiftFrac) ==
  LET a == frac + shiftFrac
      b == IF a < 0 THEN a + One ELSE a
  IN  IF b >= One THEN b - One ELSE b

\* Blanked with a plausible defect: the comparisons are <= and >= instead of < and >.
BlankedInclusive(fShift, blankFrac) == fShift <= blankFrac \/ fShift >= One - blankFrac

\* (fShift < blankFrac) || (fShift > (1.0f - blankFrac))
Blanked(fShift, blankFrac) == fShift < blankFrac \/ fShift > One - blankFrac

\* PolyIntensity with a plausible defect: the lit level is written as 1.0 instead of 5.0.
PolyIntensityUnit(fShift, blankFrac) == IF Blanked(fShift, blankFrac) THEN IntensityOff ELSE 1

\* poly5: Iout = 5.0f; if (blanked) Iout = 0.0f;
PolyIntensity(fShift, blankFrac) ==
  IF Blanked(fShift, blankFrac) THEN IntensityOff ELSE IntensityOn

\* CubeIntensity with a plausible defect: the draw flag is ignored, as in poly5.
CubeIntensityDrawIgnored(draw, fShift, blankFrac) ==
  IF Blanked(fShift, blankFrac) THEN IntensityOff ELSE IntensityOn

\* cube: Iout = seg.draw ? 5.0f : 0.0f; if (seg.draw && blanked) Iout = 0.0f;
CubeIntensity(draw, fShift, blankFrac) ==
  LET i0 == IF draw # 0 THEN IntensityOn ELSE IntensityOff
  IN  IF draw # 0 /\ Blanked(fShift, blankFrac) THEN IntensityOff ELSE i0

\* --------------------------------------- the phase in float32 arithmetic

\* A float32 value x with 0 <= x < 2 that is a multiple of 2^-30 is kept as
\* the integer x * 2^30; FOne is 1.0f.
FOne == 2^30

\* The spacing of the float32 values around v (24 significant bits).
FQuantum(v) ==
  LET h == v \div 2^23
  IN  IF h < 2 THEN 1 ELSE CHOOSE q \in {2^i : i \in 1..7} : q <= h /\ h < 2 * q

\* The float32 value nearest to v, ties to even: the result of a float32
\* addition or subtraction whose exact result is v.
RoundF(v) ==
  LET q  == FQuantum(v)
      r  == v % q
      lo == v - r
  IN  IF 2 * r < q THEN lo
      ELSE IF 2 * r > q THEN lo + q
      ELSE IF (lo \div q) % 2 = 0 THEN lo ELSE lo + q

\* freq / fs in float32, for a frequency that divides the sample rate:
\* the float32 value nearest to 1 / (fs / freq).
FDiv(f) ==
  LET d   == SampleRate \div f
      fl  == FOne \div d
      q   == FQuantum(fl)
      lo  == (fl \div q) * q
      r2  == 2 * (FOne - lo * d)
  IN  IF r2 < q * d THEN lo
      ELSE IF r2 > q * d THEN lo + q
      ELSE IF (lo \div q) % 2 = 0 THEN lo ELSE lo + q

\* FAdvance with a plausible defect: the wrap sets the phase to 0.
FAdvanceReset(ph, inc) == LET a == RoundF(ph + inc) IN IF a >= FOne THEN 0 ELSE a

\* phase += (freq / fs); if (phase >= 1.0f) phase -= 1.0f;   in float32
FAdvance(ph, inc) ==
  LET a == RoundF(ph + inc) IN IF a >= FOne THEN RoundF(a - FOne) ELSE a

\* N when freq / fs is exactly 1/N in float32; 0 otherwise.
FCycle(inc) == IF inc * (FOne \div inc) = FOne THEN FOne \div inc ELSE 0

\* One sample: the phase advances; the observer counts the samples since the
\* phase was p0 and, at the N-th, records the phase reached (ret) and starts over.
FSample(st) ==
  LET inc == FDiv(st.freq)
      N   == FCycle(inc)
      ph  == FAdvance(st.phase, inc)
  IN  IF N > 0 /\ st.cnt + 1 = N
        THEN [st EXCEPT !.phase = ph, !.cnt = 0, !.p0 = ph,
                        !.ret = [n |-> N, p0 |-> st.p0, p |-> ph]]
        ELSE [st EXCEPT !.phase = ph, !.cnt = IF N > 0 THEN st.cnt + 1 ELSE 0]

\* The state after j samples.
RECURSIVE FAfter(_, _)
FAfter(st, j) == IF j = 0 THEN st ELSE FSample(FAfter(st, j - 1))

\* ------------------------------------------- poly5: transform and project

\* rawVertsAll[], the octahedron's six vertices. (The vertices of the other
\* solids are divided by irrational lengths; the X and Y outputs are
\* represented for the octahedron only.)
rawVertsAll ==
  Arr(<<  1,  0,  0,   -1,  0,  0,
          0,  1,  0,    0, -1,  0,
          0,  0,  1,    0,  0, -1 >>)

\* initialise(): L = sqrtf(x*x + y*y + z*z); if (L > 0) each coordinate is divided by L.
sharedVerts ==
  [i \in DOMAIN rawVertsAll |->
     LET v  == i \div 3
         sq == rawVertsAll[v * 3] * rawVertsAll[v * 3] + rawVertsAll[v * 3 + 1] * rawVertsAll[v * 3 + 1]
                 + rawVertsAll[v * 3 + 2] * rawVertsAll[v * 3 + 2]
         L  == CHOOSE l \in 0..sq : l * l = sq
     IN  IF L > 0 THEN rawVertsAll[i] \div L ELSE rawVertsAll[i]]

\* sinf(r) and cosf(r) for r = raw * (3.14159265f / 180.0f), at the multiples
\* of 90 degrees: exact at raw = 0; at the other multiples the exact values
\* 0 and +-1 stand for float results that differ from them by less than 2e-7.
SinCos(raw) ==
  LET q == (raw \div 90) % 4
  IN  [ sin |-> IF q = 1 THEN 1 ELSE IF q = 3 THEN -1 ELSE 0,
        cos |-> IF q = 0 THEN 1 ELSE IF q = 2 THEN -1 ELSE 0 ]

\* float d = raw * 0.01f; if (d < 0.111f) d = 0.111f;   (in units of 1/One)
CameraDist(raw) ==
  LET d == raw * (One \div 100) IN IF d < 111 * (One \div 1000) THEN 111 * (One \div 1000) ELSE d

\* P = (1 - frac) * A + frac * B, per coordinate (in units of 1/One).
Interpolate(frac, vertA, vertB) ==
  LET c(k) == (One - frac) * sharedVerts[vertA * 3 + k] + frac * sharedVerts[vertB * 3 + k]
  IN  [x |-> c(0), y |-> c(1), z |-> c(2)]

\* RotateX with a plausible defect: sine and cosine are exchanged.
RotateXSwapped(r, P) ==
  [x |-> P.x, y |-> r.sinX * P.y - r.cosX * P.z, z |-> r.cosX * P.y + r.sinX * P.z]

\* Y1 = cosX * Py - sinX * Pz; Z1 = sinX * Py + cosX * Pz; X1 = Px;
RotateX(r, P) ==
  [x |-> P.x, y |-> r.cosX * P.y - r.sinX * P.z, z |-> r.sinX * P.y + r.cosX * P.z]

\* X2 = cosY * X1 + sinY * Z1; Z2 = -sinY * X1 + cosY * Z1; Y2 = Y1;
RotateY(r, P) ==
  [x |-> r.cosY * P.x + r.sinY * P.z, y |-> P.y, z |-> (-r.sinY) * P.x + r.cosY * P.z]

\* Xr = cosZ * X2 - sinZ * Y2; Yr = sinZ * X2 + cosZ * Y2; Zr = Z2;
RotateZ(r, P) ==
  [x |-> r.cosZ * P.x - r.sinZ * P.y, y |-> r.sinZ * P.x + r.cosZ * P.y, z |-> P.z]

\* The projection of the rotated point R. An output 5.0f * (c * scale) is
\* kept as [v |-> 5 * c, num, den] with scale = num / den (1/1 in orthographic
\* mode); the division is not carried out.
Project(r, R) ==
  LET d0   == R.z + r.cameraDist
      dcam == IF d0 = 0 THEN One \div 10000 ELSE d0
      out(c, num, den) == [v |-> 5 * c, num |-> num, den |-> den]
  IN  IF r.projectionMode = 1
        THEN IF r.polarity = 0
               THEN [X |-> out(R.x, r.cameraDist, dcam), Y |-> out(R.y, r.cameraDist, dcam)]
               ELSE [X |-> out(R.x, d0, r.cameraDist), Y |-> out(R.y, d0, r.cameraDist)]
        ELSE [X |-> out(R.x, 1, 1), Y |-> out(R.y, 1, 1)]

\* The point, the rotated point and the X and Y outputs of the sample x.
XYSample(r, x) ==
  LET P  == Interpolate(x.frac, x.vertA, x.vertB)
      R  == RotateZ(r, RotateY(r, RotateX(r, P)))
      XY == Project(r, R)
  IN  [frac |-> x.frac, vertA |-> x.vertA, vertB |-> x.vertB,
       P |-> P, R |-> R, X |-> XY.X, Y |-> XY.Y]

\* PolyInstance(): the cached sines and cosines, the camera and the modes.
RotInit(pl) ==
  [ sinX |-> 0, cosX |-> 1, sinY |-> 0, cosY |-> 1, sinZ |-> 0, cosZ |-> 1,
    cameraDist |-> IF pl = "cube" THEN 5 * One ELSE One,
    projectionMode |-> 1, polarity |-> 0 ]

\* The X and Y outputs are not kept / are kept.
XYOff == [on |-> FALSE, s |-> <<>>]

XYOn == [on |-> TRUE, s |-> <<>>]

\* -------------------------------- cube: quantisation and projection

\* initialise() of the cube plugin scales the eight vertices by 1 / maxL,
\* maxL = sqrt(3): a coordinate of the cube is a multiple of 1/sqrt(3). A
\* number a + b / sqrt(3) is kept as [a, b], both in units of 1/One; it is 0
\* only if a and b are 0.
Root3(a, b) == [a |-> a, b |-> b]

\* u * sqrt(3) <= w, for integers u and w.
Root3LessEq(u, w) ==
  LET g  == GCD(IF u < 0 THEN -u ELSE u, IF w < 0 THEN -w ELSE w)
      u1 == IF g = 0 THEN 0 ELSE u \div g
      w1 == IF g = 0 THEN 0 ELSE w \div g
  IN  IF u1 <= 0 /\ w1 >= 0 THEN TRUE
      ELSE IF u1 > 0 /\ w1 < 0 THEN FALSE
      ELSE IF u1 > 0 THEN 3 * u1 * u1 <= w1 * w1
      ELSE 3 * u1 * u1 >= w1 * w1

\* P = (1 - frac) * A + frac * B on the cube, per coordinate.
CubeInterpolate(frac, vA, vB) ==
  LET c(k) == (One - frac) * rawCubeVerts[vA * 3 + k] + frac * rawCubeVerts[vB * 3 + k]
  IN  [x |-> c(0), y |-> c(1), z |-> c(2)]

\* Quantise with a plausible defect: the test of resolution is missing.
QuantiseUnguarded(res, c) ==
  LET k == CHOOSE m \in 0..res :
             /\ Root3LessEq((2 * m - res - 1) * One, c * res)
             /\ ~Root3LessEq((2 * m - res + 1) * One, c * res)
  IN  [v |-> Root3(IF res = 0 THEN 0 ELSE (2 * k * One) \div res - One, 0), div |-> res, used |-> TRUE]

\* if (resolution > 0) { scaleQ = res * 0.5f; c = roundf((c + 1.0f) * scaleQ) / scaleQ - 1.0f; }
\* for the coordinate c / sqrt(3). roundf gives the integer k with
\* k - 1/2 <= (c / sqrt(3) + 1) * res / 2 < k + 1/2; div is the divisor
\* scaleQ in halves, used tells whether the division is made.
Quantise(res, c) ==
  IF res > 0
    THEN LET k == CHOOSE m \in 0..res :
                    /\ Root3LessEq((2 * m - res - 1) * One, c * res)
                    /\ ~Root3LessEq((2 * m - res + 1) * One, c * res)
         IN  [v |-> Root3((2 * k * One) \div res - One, 0), div |-> res, used |-> TRUE]
    ELSE [v |-> Root3(0, c), div |-> 0, used |-> FALSE]

\* CubeDcam with a plausible defect: the test for zero is missing.
CubeDcamUnguarded(d0) == d0

\* if (dcam == 0.0f) dcam = 0.0001f;
CubeDcam(d0) == IF d0 = Root3(0, 0) THEN Root3(One \div 10000, 0) ELSE d0

\* The projection of the cube plugin: the scale num / den of each mode.
CubeProject(r, Zr) ==
  LET d0 == Root3(Zr.a + r.cameraDist, Zr.b)
      cd == Root3(r.cameraDist, 0)
  IN  IF r.projectionMode = 1
        THEN IF r.polarity = 0
               THEN [num |-> cd, den |-> CubeDcam(d0), divides |-> TRUE]
               ELSE [num |-> d0, den |-> cd, divides |-> TRUE]
        ELSE [num |-> Root3(One, 0), den |-> Root3(One, 0), divides |-> FALSE]

\* One sample of the cube plugin after the edge was resolved: the point, its
\* rotation, the quantisation of each coordinate and the projection.
CubeXYSample(r, res, x) ==
  LET P  == CubeInterpolate(x.frac, x.vA, x.vB)
      R  == RotateZ(r, RotateY(r, RotateX(r, P)))
      qx == Quantise(res, R.x)
      qy == Quantise(res, R.y)
      qz == Quantise(res, R.z)
  IN  [ R |-> R, q |-> <<qx, qy, qz>>, Xr |-> qx.v, Yr |-> qy.v, Zr |-> qz.v,
        scale |-> CubeProject(r, qz.v) ]

\* The block before the last one (s0, a0), the phases it started from and the
\* phases the last block started from are not kept / are kept, nothing known.
SplitOff == [ on |-> FALSE, s0 |-> <<>>, a0 |-> <<>>, phase0 |-> 0, ampPhase0 |-> 0,
              phase1 |-> 0, ampPhase1 |-> 0 ]

SplitOn == [SplitOff EXCEPT !.on = TRUE]

\* inst->resolution and the block's divisors are not kept / are kept.
QuantOff == [on |-> FALSE, resolution |-> 0, s |-> <<>>]

QuantOn == [on |-> TRUE, resolution |-> 0, s |-> <<>>]

\* ------------------------------------- cube: the amplitude modulator

\* The modulator's phase and the waveform values are counted in units of
\* 1/AmpOne, the factor of getCourseFactor in twelfths and the multiplier
\* ampMul in units of 1/(127 * AmpOne); every quantity the modulator computes
\* from the declared parameter values is a whole number of these.
AmpOne == SampleRate * 60

AmpHalf == AmpOne \div 2

\* getCourseFactor with a plausible defect: index 3 gives 0, as its label "0" reads.
getCourseFactorZero(idx) ==
  IF idx = 0 THEN 3
  ELSE IF idx = 1 THEN 4
  ELSE IF idx = 2 THEN 6
  ELSE IF idx = 3 THEN 0
  ELSE (idx - 2) * 12

\* getCourseFactor(idx), in twelfths.
getCourseFactor(idx) ==
  IF idx = 0 THEN 3
  ELSE IF idx = 1 THEN 4
  ELSE IF idx = 2 THEN 6
  ELSE IF idx = 3 THEN 12
  ELSE (idx - 2) * 12

\* AmpInc with a plausible defect: the clamp of a negative frequency is missing.
AmpIncUnclamped(f, idx, fine) == 5 * f * getCourseFactor(idx) + 6 * fine

\* ampFreq / fs: ampFreq = freq * ampCourseFac + ampFine * 0.1f; if (ampFreq < 0) ampFreq = 0;
AmpInc(f, idx, fine) ==
  LET a == 5 * f * getCourseFactor(idx) + 6 * fine IN IF a < 0 THEN 0 ELSE a

\* ampPhase += ampFreq / fs; if (ampPhase >= 1.0f) ampPhase -= floorf(ampPhase);
AdvanceAmpPhase(ph, inc) ==
  LET a == ph + inc IN IF a >= AmpOne THEN a - (a \div AmpOne) * AmpOne ELSE a

\* The phase after j samples of one block.
RECURSIVE AmpPhaseAfter(_, _, _)
AmpPhaseAfter(ph, inc, j) ==
  IF j = 0 THEN ph ELSE AdvanceAmpPhase(AmpPhaseAfter(ph, inc, j - 1), inc)

\* oscWave with a plausible defect: the square wave is 1 and 0 instead of 1 and -1.
oscWaveUnipolar(type, ph) ==
  LET p == ph - (ph \div AmpOne) * AmpOne
      v == IF type = 0 THEN (IF p < AmpHalf THEN AmpOne ELSE 0)
           ELSE IF type = 1 THEN (IF p < AmpHalf THEN 4 * p - AmpOne ELSE 3 * AmpOne - 4 * p)
           ELSE IF type = 2 THEN AmpOne - 2 * p
           ELSE IF type = 3 THEN 2 * p - AmpOne
           ELSE 0
  IN  IF type \in 0..3 \/ p = 0 THEN [lo |-> v, hi |-> v] ELSE [lo |-> -AmpOne, hi |-> AmpOne]

\* oscWave(type, phase), phase -= floorf(phase): the value as an enclosure lo..hi. The four
\* piecewise-linear waves are exact (lo = hi); sinf is exact at phase 0 and
\* otherwise enclosed by its range -1..1.
oscWave(type, ph) ==
  LET p == ph - (ph \div AmpOne) * AmpOne
      v == IF type = 0 THEN (IF p < AmpHalf THEN AmpOne ELSE -AmpOne)
           ELSE IF type = 1 THEN (IF p < AmpHalf THEN 4 * p - AmpOne ELSE 3 * AmpOne - 4 * p)
           ELSE IF type = 2 THEN AmpOne - 2 * p
           ELSE IF type = 3 THEN 2 * p - AmpOne
           ELSE 0
  IN  IF type \in 0..3 \/ p = 0 THEN [lo |-> v, hi |-> v] ELSE [lo |-> -AmpOne, hi |-> AmpOne]

\* ampPhaseOffset = raw / 360.0f
AmpPhaseOffset(deg) == deg * (AmpOne \div 360)

\* One iteration of the modulator: ampVal = oscWave(ampWave, ampPhase + ampPhaseOffset);
\* ampMul = 1.0f + ampModAmt * ampVal, with ampModAmt = raw / 127.0f.
AmpSample(a, ph) ==
  LET val == oscWave(a.wave, ph + AmpPhaseOffset(a.phaseDeg))
  IN  [ ampPhase |-> ph,
        lo |-> 127 * AmpOne + a.mod * val.lo,
        hi |-> 127 * AmpOne + a.mod * val.hi ]

\* The modulator of an instance as constructed; poly5 has none.
AmpInit == [mod |-> 0, corse |-> 4, fine |-> 0, wave |-> 4, phaseDeg |-> 0, ampPhase |-> 0]

\* One iteration of poly5's sample loop, after the phase was advanced to ph:
\* the edge resolved, the table reads, and the intensity written.
PolySample(ph, sp, blankFrac, shiftFrac, t) ==
  LET sParam == SolidIndex(sp)
      vOff   == vertOffset[sParam]
      eOff   == edgeOffsetAll[sParam]
      eLen   == numEdgesArr[sParam]
      euOff  == eulerOffsetAll[sParam]
      ePos   == EdgePos(ph, eLen)
      idx    == EdgeIdx(ePos, eLen)
      frac   == Frac(ePos, idx)
      fShift == FShift(frac, shiftFrac)
      edgeID == sharedEulerOrder[euOff + idx]
      vA     == sharedEdges[(eOff + edgeID) * 2 + 0]
      vB     == sharedEdges[(eOff + edgeID) * 2 + 1]
  IN  [ t |-> t, phase |-> ph, idx |-> idx, frac |-> frac, fShift |-> fShift,
        orderAt |-> euOff + idx, edgeAt |-> eOff + edgeID, edgeID |-> edgeID,
        vA |-> vA, vB |-> vB, vertA |-> vOff + vA, vertB |-> vOff + vB,
        draw |-> 1, Iout |-> PolyIntensity(fShift, blankFrac) ]

\* One iteration of the cube plugin's sample loop.
CubeSample(ph, blankFrac, shiftFrac, t) ==
  LET eLen   == numSegments
      ePos   == EdgePos(ph, eLen)
      idx    == EdgeIdx(ePos, eLen)
      frac   == Frac(ePos, idx)
      fShift == FShift(frac, shiftFrac)
      seg    == cubeSegments[idx]
  IN  [ t |-> t, phase |-> ph, idx |-> idx, frac |-> frac, fShift |-> fShift,
        orderAt |-> idx, edgeAt |-> idx, edgeID |-> idx,
        vA |-> seg.a, vB |-> seg.b, vertA |-> seg.a, vertB |-> seg.b,
        draw |-> seg.draw, Iout |-> CubeIntensity(seg.draw, fShift, blankFrac) ]

\* The dark-run count after sample x: a sample on an undrawn segment makes the
\* running count unknown (-1), a dark sample on a drawn segment adds one to a
\* known count, and a lit sample closes the run (done) and restarts the count.
ScanSample(sc, x) ==
  IF x.draw = 0 THEN [sc EXCEPT !.dark = -1]
  ELSE IF x.Iout = IntensityOff
    THEN [sc EXCEPT !.dark = IF sc.dark < 0 THEN -1 ELSE sc.dark + 1]
    ELSE [sc EXCEPT !.dark = 0, !.done = IF sc.dark > 0 THEN sc.dark ELSE sc.done]

\* The dark-run count after the first j samples of the block s.
RECURSIVE ScanAfter(_, _, _)
ScanAfter(sc, s, j) ==
  IF j = 0 THEN sc ELSE ScanSample(ScanAfter(sc, s, j - 1), s[j])

\* The dark-run count is not kept / is kept and nothing is known yet.
ScanOff == [on |-> FALSE, dark |-> -1, done |-> -1]

ScanOn == [on |-> TRUE, dark |-> -1, done |-> -1]

\* The record of a call that was not step().
NoBlock == [n |-> 0, eLen |-> 0, blankFrac |-> 0, shiftFrac |-> 0, s |-> <<>>]

\* Samples per cycle when freq / fs = 1/N exactly; 0 otherwise.
CycleLen(f) == IF SampleRate % f = 0 THEN SampleRate \div f ELSE 0

\* ------------------------------------------------------------------ actions

\* The float32 phase of an instance whose phase is not followed in float32.
F32Off == [freq |-> 0, phase |-> 0, p0 |-> 0, cnt |-> 0, samples |-> 0, changed |-> FALSE,
           ret |-> [n |-> 0, p0 |-> 0, p |-> 0]]

\* No call is in progress.
NoStore == [axis |-> "", cos |-> 0]

HostIdle == [left |-> 0, pend |-> NoStore, seen |-> <<>>]

\* The MIDI pattern generator is not followed.
SeqOff == [on |-> FALSE]

\* No second instance is followed.
DuoOff == [on |-> FALSE]

\* The variables of the other specifications at rest.
OthersIdle ==
  /\ duo = DuoOff
  /\ seq = SeqOff

\* PolyInstance(): the constructed instance of either plugin.
Init ==
  /\ plugin \in Plugins
  /\ phase = 0
  /\ freq_Hz = 50
  /\ solidParam = 0
  /\ blankWindow_us = 10
  /\ blankPhase_us = 0
  /\ blk = NoBlock
  /\ tick = 0
  /\ scan = ScanOff
  /\ amp = AmpInit
  /\ ampLog = <<>>
  /\ rot = RotInit(plugin)
  /\ xyLog = XYOff
  /\ quant = QuantOff
  /\ split = SplitOff
  /\ f32 = F32Off
  /\ host = HostIdle
  /\ OthersIdle

\* step(self, busFrames, numFramesBy4)
Step(numFramesBy4) ==
  LET numFrames == numFramesBy4 * 4
      freq      == freq_Hz
      eLen      == ELen(plugin, solidParam)
      fRef      == BlankRefFreq(plugin, freq)
      blankFrac == BlankFrac(blankWindow_us, fRef, eLen)
      shiftFrac == ShiftFrac(blankPhase_us, fRef, eLen)
      inc       == PhaseInc(freq)
      ampInc    == AmpInc(freq, amp.corse, amp.fine)
      ord(j)    == IF tick < 0 THEN -1 ELSE tick + j
      sample(j) ==
        IF plugin = "cube"
          THEN CubeSample(PhaseAfter(phase, inc, j), blankFrac, shiftFrac, ord(j))
          ELSE PolySample(PhaseAfter(phase, inc, j), solidParam, blankFrac, shiftFrac, ord(j))
  IN  /\ blk' = [ n |-> numFrames, eLen |-> eLen, blankFrac |-> blankFrac,
                  shiftFrac |-> shiftFrac, s |-> [j \in 1..numFrames |-> sample(j)] ]
      /\ phase' = PhaseAfter(phase, inc, numFrames)
      /\ tick' = IF phase' = 0 THEN 0
                 ELSE IF tick < 0 \/ CycleLen(freq) = 0 \/ tick + numFrames > CycleLen(freq)
                      THEN -1 ELSE tick + numFrames
      /\ scan' = IF scan.on THEN ScanAfter(scan, blk'.s, numFrames) ELSE scan
      /\ amp' = IF plugin = "cube"
                  THEN [amp EXCEPT !.ampPhase = AmpPhaseAfter(amp.ampPhase, ampInc, numFrames)]
                  ELSE amp
      /\ ampLog' = IF plugin = "cube"
                     THEN [j \in 1..numFrames |->
                             AmpSample(amp, AmpPhaseAfter(amp.ampPhase, ampInc, j))]
                     ELSE <<>>
      /\ xyLog' = IF xyLog.on /\ plugin = "poly5" /\ SolidIndex(solidParam) = 0
                    THEN [xyLog EXCEPT !.s = [j \in 1..numFrames |-> XYSample(rot, blk'.s[j])]]
                    ELSE [xyLog EXCEPT !.s = <<>>]
      /\ quant' = IF quant.on /\ plugin = "cube"
                    THEN [quant EXCEPT !.s = [j \in 1..numFrames |->
                                                CubeXYSample(rot, quant.resolution, blk'.s[j])]]
                    ELSE [quant EXCEPT !.s = <<>>]
      /\ split' = IF split.on
                    THEN [ on |-> TRUE, s0 |-> blk.s, a0 |-> ampLog,
                           phase0 |-> split.phase1, ampPhase0 |-> split.ampPhase1,
                           phase1 |-> phase, ampPhase1 |-> amp.ampPhase ]
                    ELSE split
      /\ UNCHANGED <<otherVars, f32, host, plugin, freq_Hz, solidParam, blankWindow_us, blankPhase_us, rot>>

\* The ghost updates shared by every parameterChanged case.
ParamGhost ==
  /\ blk' = NoBlock
  /\ tick' = IF phase = 0 THEN 0 ELSE -1
  /\ scan' = [scan EXCEPT !.dark = -1, !.done = -1]
  /\ ampLog' = <<>>
  /\ xyLog' = [xyLog EXCEPT !.s = <<>>]
  /\ quant' = [quant EXCEPT !.s = <<>>]
  /\ split' = IF split.on THEN SplitOn ELSE split

\* parameterChanged, case 0: Frequency
SetFrequency(raw) ==
  /\ freq_Hz' = raw
  /\ ParamGhost
  /\ UNCHANGED <<otherVars, f32, host, amp, rot, plugin, phase, solidParam, blankWindow_us, blankPhase_us>>

\* parameterChanged, case 10 of poly5: Solid
SetSolid(raw) ==
  /\ plugin = "poly5"
  /\ solidParam' = raw
  /\ ParamGhost
  /\ UNCHANGED <<otherVars, f32, host, amp, rot, plugin, phase, freq_Hz, blankWindow_us, blankPhase_us>>

\* parameterChanged, case 11 of poly5 and case 10 of the cube plugin: BlankWindow
SetBlankWindow(raw) ==
  /\ blankWindow_us' = raw
  /\ ParamGhost
  /\ UNCHANGED <<otherVars, f32, host, amp, rot, plugin, phase, freq_Hz, solidParam, blankPhase_us>>

\* parameterChanged, case 12 of poly5 and case 11 of the cube plugin: BlankPhase
SetBlankPhase(raw) ==
  /\ blankPhase_us' = raw
  /\ ParamGhost
  /\ UNCHANGED <<otherVars, f32, host, amp, rot, plugin, phase, freq_Hz, solidParam, blankWindow_us>>

\* parameterChanged, case 13 of the cube plugin: AmpMod
SetAmpMod(raw) ==
  /\ plugin = "cube"
  /\ amp' = [amp EXCEPT !.mod = raw]
  /\ ParamGhost
  /\ UNCHANGED <<otherVars, f32, host, rot, plugin, phase, freq_Hz, solidParam, blankWindow_us, blankPhase_us>>

\* parameterChanged, case 14 of the cube plugin: AmpCorse
SetAmpCorse(raw) ==
  /\ plugin = "cube"
  /\ amp' = [amp EXCEPT !.corse = raw]
  /\ ParamGhost
  /\ UNCHANGED <<otherVars, f32, host, rot, plugin, phase, freq_Hz, solidParam, blankWindow_us, blankPhase_us>>

\* parameterChanged, case 15 of the cube plugin: AmpFine
SetAmpFine(raw) ==
  /\ plugin = "cube"
  /\ amp' = [amp EXCEPT !.fine = raw]
  /\ ParamGhost
  /\ UNCHANGED <<otherVars, f32, host, rot, plugin, phase, freq_Hz, solidParam, blankWindow_us, blankPhase_us>>

\* parameterChanged, case 16 of the cube plugin: AmpWave
SetAmpWave(raw) ==
  /\ plugin = "cube"
  /\ amp' = [amp EXCEPT !.wave = raw]
  /\ ParamGhost
  /\ UNCHANGED <<otherVars, f32, host, rot, plugin, phase, freq_Hz, solidParam, blankWindow_us, blankPhase_us>>

\* parameterChanged, case 17 of the cube plugin: AmpPhase
SetAmpPhase(raw) ==
  /\ plugin = "cube"
  /\ amp' = [amp EXCEPT !.phaseDeg = raw]
  /\ ParamGhost
  /\ UNCHANGED <<otherVars, f32, host, rot, plugin, phase, freq_Hz, solidParam, blankWindow_us, blankPhase_us>>

\* parameterChanged, case 1: RotX
SetRotX(raw) ==
  /\ rot' = [rot EXCEPT !.sinX = SinCos(raw).sin, !.cosX = SinCos(raw).cos]
  /\ ParamGhost
  /\ UNCHANGED <<otherVars, f32, host, amp, plugin, phase, freq_Hz, solidParam, blankWindow_us, blankPhase_us>>

\* parameterChanged, case 2: RotY
SetRotY(raw) ==
  /\ rot' = [rot EXCEPT !.sinY = SinCos(raw).sin, !.cosY = SinCos(raw).cos]
  /\ ParamGhost
  /\ UNCHANGED <<otherVars, f32, host, amp, plugin, phase, freq_Hz, solidParam, blankWindow_us, blankPhase_us>>

\* parameterChanged, case 3: RotZ
SetRotZ(raw) ==
  /\ rot' = [rot EXCEPT !.sinZ = SinCos(raw).sin, !.cosZ = SinCos(raw).cos]
  /\ ParamGhost
  /\ UNCHANGED <<otherVars, f32, host, amp, plugin, phase, freq_Hz, solidParam, blankWindow_us, blankPhase_us>>

\* parameterChanged, case 4: Distance
SetDistance(raw) ==
  /\ rot' = [rot EXCEPT !.cameraDist = CameraDist(raw)]
  /\ ParamGhost
  /\ UNCHANGED <<otherVars, f32, host, amp, plugin, phase, freq_Hz, solidParam, blankWindow_us, blankPhase_us>>

\* parameterChanged, case 5: Projection
SetProjection(raw) ==
  /\ rot' = [rot EXCEPT !.projectionMode = IF raw # 0 THEN 1 ELSE 0]
  /\ ParamGhost
  /\ UNCHANGED <<otherVars, f32, host, amp, plugin, phase, freq_Hz, solidParam, blankWindow_us, blankPhase_us>>

\* parameterChanged, case 6: Polarity
SetPolarity(raw) ==
  /\ rot' = [rot EXCEPT !.polarity = raw]
  /\ ParamGhost
  /\ UNCHANGED <<otherVars, f32, host, amp, plugin, phase, freq_Hz, solidParam, blankWindow_us, blankPhase_us>>

\* parameterChanged, case 12 of the cube plugin: Resolution
SetResolution(raw) ==
  /\ plugin = "cube"
  /\ quant' = [quant EXCEPT !.resolution = raw, !.s = <<>>]
  /\ split' = IF split.on THEN SplitOn ELSE split
  /\ blk' = NoBlock
  /\ tick' = IF phase = 0 THEN 0 ELSE -1
  /\ scan' = [scan EXCEPT !.dark = -1, !.done = -1]
  /\ ampLog' = <<>>
  /\ xyLog' = [xyLog EXCEPT !.s = <<>>]
  /\ UNCHANGED <<otherVars, f32, host, amp, rot, plugin, phase, freq_Hz, solidParam, blankWindow_us, blankPhase_us>>

Next ==
  \/ \E n \in 1..MaxFramesBy4 : Step(n)
  \/ \E raw \in FreqVals : SetFrequency(raw)
  \/ \E raw \in SolidVals : SetSolid(raw)
  \/ \E raw \in BlankWindowVals : SetBlankWindow(raw)
  \/ \E raw \in BlankPhaseVals : SetBlankPhase(raw)

Spec == Init /\ [][Next]_vars

\* ------------------------------------------------- fixed settings, scanned

\* The settings of the scanned runs: the Frequency and BlankWindow values set
\* before the first block (the solid and the blank phase stay as constructed).
ScanFreqVals == {50, 1000}

ScanWindowVals == {100, 500}

\* The constructed instance after parameterChanged set Frequency and
\* BlankWindow, before the first block; the dark-run count is kept.
InitScan ==
  /\ plugin \in Plugins
  /\ phase = 0
  /\ freq_Hz \in ScanFreqVals
  /\ solidParam = 0
  /\ blankWindow_us \in ScanWindowVals
  /\ blankPhase_us = 0
  /\ blk = NoBlock
  /\ tick = 0
  /\ scan = ScanOn
  /\ amp = AmpInit
  /\ ampLog = <<>>
  /\ rot = RotInit(plugin)
  /\ xyLog = XYOff
  /\ quant = QuantOff
  /\ split = SplitOff
  /\ f32 = F32Off
  /\ host = HostIdle
  /\ OthersIdle

\* Blocks only: the settings stay as they are.
NextScan == \E n \in 1..MaxFramesBy4 : Step(n)

SpecScan == InitScan /\ [][NextScan]_vars

\* ------------------------------------------- cube: the modulator's settings

\* Values of AmpMod (0..127), AmpCorse (0..34), AmpWave (0..4) and AmpPhase
\* (0..360) that are tried, next to the constructed 0, 4, 4 (sine) and 0.
AmpModVals == {64, 127}

AmpCorseVals == {1, 3, 34}

AmpWaveVals == {0, 1}

AmpPhaseVals == {90}

\* The constructed cube instance after parameterChanged set Frequency to
\* 1000 Hz, before the first block.
InitAmp ==
  /\ plugin = "cube"
  /\ phase = 0
  /\ freq_Hz = 1000
  /\ solidParam = 0
  /\ blankWindow_us = 10
  /\ blankPhase_us = 0
  /\ blk = NoBlock
  /\ tick = 0
  /\ scan = ScanOff
  /\ amp = AmpInit
  /\ ampLog = <<>>
  /\ rot = RotInit(plugin)
  /\ xyLog = XYOff
  /\ quant = QuantOff
  /\ split = SplitOff
  /\ f32 = F32Off
  /\ host = HostIdle
  /\ OthersIdle

NextAmp ==
  \/ \E n \in 1..MaxFramesBy4 : Step(n)
  \/ \E raw \in AmpModVals : SetAmpMod(raw)
  \/ \E raw \in AmpCorseVals : SetAmpCorse(raw)
  \/ \E raw \in AmpWaveVals : SetAmpWave(raw)
  \/ \E raw \in AmpPhaseVals : SetAmpPhase(raw)

SpecAmp == InitAmp /\ [][NextAmp]_vars

\* ------------------------------------------- two blocks against one block

\* The constructed instance of either plugin, the block before the last kept.
InitSplit ==
  /\ plugin \in Plugins
  /\ phase = 0
  /\ freq_Hz = 50
  /\ solidParam = 0
  /\ blankWindow_us = 10
  /\ blankPhase_us = 0
  /\ blk = NoBlock
  /\ tick = 0
  /\ scan = ScanOff
  /\ amp = AmpInit
  /\ ampLog = <<>>
  /\ rot = RotInit(plugin)
  /\ xyLog = XYOff
  /\ quant = QuantOff
  /\ split = SplitOn
  /\ f32 = F32Off
  /\ host = HostIdle
  /\ OthersIdle

NextSplit ==
  \/ \E n \in 1..MaxFramesBy4 : Step(n)
  \/ \E raw \in FreqVals : SetFrequency(raw)

SpecSplit == InitSplit /\ [][NextSplit]_vars

\* ------------------------------- cube: the modulator's frequency and phase

\* Values of Frequency (1..1000) and of AmpFine (-100..100) that are tried,
\* and the number of blocks a run is followed for.
FineFreqVals == {1, 1000}

AmpFineVals == {-100, 100}

MaxFineBlocks == 4

\* The constructed cube instance after parameterChanged set Frequency.
InitFine ==
  /\ plugin = "cube"
  /\ phase = 0
  /\ freq_Hz \in FineFreqVals
  /\ solidParam = 0
  /\ blankWindow_us = 10
  /\ blankPhase_us = 0
  /\ blk = NoBlock
  /\ tick = 0
  /\ scan = ScanOff
  /\ amp = AmpInit
  /\ ampLog = <<>>
  /\ rot = RotInit(plugin)
  /\ xyLog = XYOff
  /\ quant = QuantOff
  /\ split = SplitOff
  /\ f32 = F32Off
  /\ host = HostIdle
  /\ OthersIdle

\* step(), while fewer than 4 * MaxFineBlocks samples were processed.
FineStep(numFramesBy4) ==
  /\ phase + 4 * numFramesBy4 * PhaseInc(freq_Hz) <= 4 * MaxFineBlocks * PhaseInc(freq_Hz)
  /\ Step(numFramesBy4)

NextFine ==
  \/ \E n \in 1..MaxFramesBy4 : FineStep(n)
  \/ \E raw \in AmpCorseVals : SetAmpCorse(raw)
  \/ \E raw \in AmpFineVals : SetAmpFine(raw)

SpecFine == InitFine /\ [][NextFine]_vars

\* ------------------------------------------------ the phase in float32

\* Frequencies whose float32 increment is a multiple of 2^-30 (375 and 750 Hz
\* give exactly 1/128 and 1/64; 1000 Hz gives the float32 nearest to 1/48).
FloatFreqVals == {375, 750, 1000}

\* The number of blocks a run is followed for.
MaxFloatBlocks == 40

\* The constructed instance (phase 0) after parameterChanged set Frequency,
\* before the first block. Frequency and phase are followed in f32; the
\* variables of the exact-arithmetic model rest.
InitFloat ==
  /\ plugin = "poly5"
  /\ phase = 0
  /\ freq_Hz = 50
  /\ solidParam = 0
  /\ blankWindow_us = 10
  /\ blankPhase_us = 0
  /\ blk = NoBlock
  /\ tick = 0
  /\ scan = ScanOff
  /\ amp = AmpInit
  /\ ampLog = <<>>
  /\ rot = RotInit(plugin)
  /\ xyLog = XYOff
  /\ quant = QuantOff
  /\ split = SplitOff
  /\ \E f \in FloatFreqVals : f32 = [F32Off EXCEPT !.freq = f]
  /\ host = HostIdle
  /\ OthersIdle

\* step(): the phase loaded, advanced once per sample, and stored.
FloatStep(numFramesBy4) ==
  /\ f32.samples + 4 * numFramesBy4 <= 4 * MaxFloatBlocks
  /\ f32' = [FAfter(f32, 4 * numFramesBy4) EXCEPT !.samples = f32.samples + 4 * numFramesBy4]
  /\ UNCHANGED <<exactVars, host, otherVars>>

\* parameterChanged, case 0: Frequency (followed once per run); the observer
\* starts over from the phase in force.
FloatSetFrequency(raw) ==
  /\ ~f32.changed
  /\ f32' = [f32 EXCEPT !.freq = raw, !.changed = TRUE, !.p0 = f32.phase, !.cnt = 0]
  /\ UNCHANGED <<exactVars, host, otherVars>>

NextFloat ==
  \/ \E n \in 1..MaxFramesBy4 : FloatStep(n)
  \/ \E raw \in FloatFreqVals : FloatSetFrequency(raw)

SpecFloat == InitFloat /\ [][NextFloat]_vars

\* ------------------------------------- poly5: rotation, camera, projection

\* Values of RotX, RotY, RotZ (0..360 degrees), Distance (1..1000),
\* Projection (0..1) and Polarity (0..1) that are tried.
RotVals == {0, 90}

DistanceVals == {1, 1000}

ProjectionVals == {0, 1}

PolarityVals == {0, 1}

\* The constructed poly5 instance (the octahedron selected); the X and Y
\* outputs are kept.
InitXY ==
  /\ plugin = "poly5"
  /\ phase = 0
  /\ freq_Hz = 50
  /\ solidParam = 0
  /\ blankWindow_us = 10
  /\ blankPhase_us = 0
  /\ blk = NoBlock
  /\ tick = 0
  /\ scan = ScanOff
  /\ amp = AmpInit
  /\ ampLog = <<>>
  /\ rot = RotInit(plugin)
  /\ xyLog = XYOn
  /\ quant = QuantOff
  /\ split = SplitOff
  /\ f32 = F32Off
  /\ host = HostIdle
  /\ OthersIdle

NextXY ==
  \/ \E n \in 1..MaxFramesBy4 : Step(n)
  \/ \E raw \in RotVals : SetRotX(raw)
  \/ \E raw \in RotVals : SetRotY(raw)
  \/ \E raw \in RotVals : SetRotZ(raw)
  \/ \E raw \in DistanceVals : SetDistance(raw)
  \/ \E raw \in ProjectionVals : SetProjection(raw)
  \/ \E raw \in PolarityVals : SetPolarity(raw)

SpecXY == InitXY /\ [][NextXY]_vars

\* ------------------------- cube: the divisors of the per-sample path

\* Values of Resolution (0..100) and of Distance (1..1000) that are tried.
ResolutionVals == {0, 1, 2}

QuantDistanceVals == {1, 100, 1000}

\* The constructed cube instance at 1000 Hz, the divisors kept.
InitQuant ==
  /\ plugin = "cube"
  /\ phase = 0
  /\ freq_Hz = 1000
  /\ solidParam = 0
  /\ blankWindow_us = 10
  /\ blankPhase_us = 0
  /\ blk = NoBlock
  /\ tick = 0
  /\ scan = ScanOff
  /\ amp = AmpInit
  /\ ampLog = <<>>
  /\ rot = RotInit(plugin)
  /\ xyLog = XYOff
  /\ quant = QuantOn
  /\ split = SplitOff
  /\ f32 = F32Off
  /\ host = HostIdle
  /\ OthersIdle

NextQuant ==
  \/ \E n \in 1..MaxFramesBy4 : Step(n)
  \/ \E raw \in ResolutionVals : SetResolution(raw)
  \/ \E raw \in QuantDistanceVals : SetDistance(raw)
  \/ \E raw \in ProjectionVals : SetProjection(raw)
  \/ \E raw \in PolarityVals : SetPolarity(raw)

SpecQuant == InitQuant /\ [][NextQuant]_vars

\* ------------------------------------------- the calls, store by store

\* HostMayCall with a plausible defect: the host calls at any time, also
\* while another call on the instance is in progress.
HostMayCallAnytime(h) == TRUE

\* The host's ordering of the calls on one instance: a call of step() or of
\* parameterChanged() begins only when no call is in progress.
HostMayCall(h) == h.left = 0 /\ h.pend = NoStore

\* step() is called: the block's samples are still to be computed.
HostCallStep(numFramesBy4) ==
  /\ HostMayCall(host)
  /\ host.left = 0
  /\ host' = [host EXCEPT !.left = 4 * numFramesBy4, !.seen = <<>>]
  /\ UNCHANGED <<exactVars, f32, otherVars>>

\* One iteration of step()'s sample loop: it reads inst->sinX .. inst->cosZ,
\* cameraDist, projectionMode and polarity from the instance.
HostSample ==
  /\ host.left > 0
  /\ host' = [host EXCEPT !.left = host.left - 1, !.seen = Append(host.seen, rot)]
  /\ UNCHANGED <<exactVars, f32, otherVars>>

\* parameterChanged(p) is called for p = 1, 2, 3 (RotX, RotY, RotZ): the
\* first store, inst->sinA = sinf(r); the store of the cosine is still to come.
HostCallRot(axis, raw) ==
  /\ HostMayCall(host)
  /\ host.pend = NoStore
  /\ rot' = IF axis = "X" THEN [rot EXCEPT !.sinX = SinCos(raw).sin]
            ELSE IF axis = "Y" THEN [rot EXCEPT !.sinY = SinCos(raw).sin]
            ELSE [rot EXCEPT !.sinZ = SinCos(raw).sin]
  /\ host' = [host EXCEPT !.pend = [axis |-> axis, cos |-> SinCos(raw).cos]]
  /\ UNCHANGED <<otherVars, f32, plugin, phase, freq_Hz, solidParam, blankWindow_us, blankPhase_us,
                 blk, tick, scan, amp, ampLog, xyLog, quant, split>>

\* The second store, inst->cosA = cosf(r), and the return.
HostRotReturn ==
  /\ host.pend # NoStore
  /\ rot' = IF host.pend.axis = "X" THEN [rot EXCEPT !.cosX = host.pend.cos]
            ELSE IF host.pend.axis = "Y" THEN [rot EXCEPT !.cosY = host.pend.cos]
            ELSE [rot EXCEPT !.cosZ = host.pend.cos]
  /\ host' = [host EXCEPT !.pend = NoStore]
  /\ UNCHANGED <<otherVars, f32, plugin, phase, freq_Hz, solidParam, blankWindow_us, blankPhase_us,
                 blk, tick, scan, amp, ampLog, xyLog, quant, split>>

\* The constructed poly5 instance, no call in progress.
InitHost ==
  /\ plugin = "poly5"
  /\ phase = 0
  /\ freq_Hz = 50
  /\ solidParam = 0
  /\ blankWindow_us = 10
  /\ blankPhase_us = 0
  /\ blk = NoBlock
  /\ tick = 0
  /\ scan = ScanOff
  /\ amp = AmpInit
  /\ ampLog = <<>>
  /\ rot = RotInit(plugin)
  /\ xyLog = XYOff
  /\ quant = QuantOff
  /\ split = SplitOff
  /\ f32 = F32Off
  /\ host = HostIdle
  /\ OthersIdle

NextHost ==
  \/ \E n \in 1..MaxFramesBy4 : HostCallStep(n)
  \/ HostSample
  \/ \E axis \in {"X", "Y", "Z"} : \E raw \in RotVals : HostCallRot(axis, raw)
  \/ HostRotReturn

SpecHost == InitHost /\ [][NextHost]_vars

\* --------------------------------------------- two instances, one Geometry Store

\* initialise(): what it leaves in the shared DRAM. It makes no check of the
\* tables it copies and has no failing path: it returns void after the copies.
initialise ==
  [ verts |-> sharedVerts, edges |-> sharedEdges, order |-> sharedEulerOrder,
    failed |-> FALSE ]

\* The instances that are followed, and the buses of busFrames (X Out, Y Out
\* and Int Out have the range 0..27).
Instances == {1, 2}

Buses == 0..27

\* Values of X Out that are tried.
DuoBusVals == {0, 12}

\* PolyInstance(), with the fields step() reads for the edge and the intensity.
PolyInstance ==
  [ phase |-> 0, freq_Hz |-> 50, solidParam |-> 0, blankWindow_us |-> 10,
    blankPhase_us |-> 0, xOutBus |-> 12, yOutBus |-> 13, iOutBus |-> 14 ]

\* DuoPhaseOf with a plausible defect: the running phase is a static, the one
\* of the first instance, instead of a field of each instance.
DuoPhaseShared(d, i) == d.inst[1].phase

\* float phase = inst->phase;
DuoPhaseOf(d, i) == d.inst[i].phase

\* The samples of a block of n frames of the instance r whose loaded phase is ph.
DuoBlock(r, ph, n) ==
  LET eLen      == ELen("poly5", r.solidParam)
      blankFrac == BlankFrac(r.blankWindow_us, r.freq_Hz, eLen)
      shiftFrac == ShiftFrac(r.blankPhase_us, r.freq_Hz, eLen)
      inc       == PhaseInc(r.freq_Hz)
  IN  [j \in 1..n |-> PolySample(PhaseAfter(ph, inc, j), r.solidParam, blankFrac, shiftFrac, -1)]

\* busX[i] = Xv; busY[i] = Yv; busI[i] = Iout; by instance i: each bus is
\* marked with its last writer and the signal written.
DuoBusWrites(bus, r, i) ==
  LET bX == [bus EXCEPT ![r.xOutBus] = [axis |-> "X", by |-> i]]
      bY == [bX  EXCEPT ![r.yOutBus] = [axis |-> "Y", by |-> i]]
  IN  [bY EXCEPT ![r.iOutBus] = [axis |-> "I", by |-> i]]

\* A bus nothing was written to.
BusSilent == [axis |-> "", by |-> 0]

\* step() of instance i. (solo[i] is the same instance given the same calls
\* with no other instance in the program; out is the block an instance wrote.)
DuoStep(i, numFramesBy4) ==
  LET numFrames == numFramesBy4 * 4
      r         == duo.inst[i]
      ph        == DuoPhaseOf(duo, i)
      s         == DuoBlock(r, ph, numFrames)
      a         == duo.solo[i]
      sa        == DuoBlock(a.inst, a.inst.phase, numFrames)
  IN  /\ duo.on
      /\ duo' = [duo EXCEPT
                   !.inst[i].phase = s[numFrames].phase,
                   !.bus = DuoBusWrites(duo.bus, r, i),
                   !.out[i] = s,
                   !.solo[i] = [inst |-> [a.inst EXCEPT !.phase = sa[numFrames].phase], out |-> sa],
                   !.call = <<"step", i>> ]
      /\ UNCHANGED <<exactVars, f32, host, seq>>

\* parameterChanged of instance i, case 7: X Out
DuoSetXOut(i, raw) ==
  /\ duo.on
  /\ duo' = [duo EXCEPT !.inst[i].xOutBus = raw, !.solo[i].inst.xOutBus = raw,
                        !.call = <<"parameterChanged", i>>]
  /\ UNCHANGED <<exactVars, f32, host, seq>>

\* The instance i after PolyInstance() and the host's first parameterChanged
\* of Frequency (1000 Hz).
DuoConstructed(i) == [PolyInstance EXCEPT !.freq_Hz = 1000]

\* initialise() has run and two instances were constructed.
InitDuo ==
  /\ plugin = "poly5"
  /\ phase = 0
  /\ freq_Hz = 50
  /\ solidParam = 0
  /\ blankWindow_us = 10
  /\ blankPhase_us = 0
  /\ blk = NoBlock
  /\ tick = 0
  /\ scan = ScanOff
  /\ amp = AmpInit
  /\ ampLog = <<>>
  /\ rot = RotInit(plugin)
  /\ xyLog = XYOff
  /\ quant = QuantOff
  /\ split = SplitOff
  /\ f32 = F32Off
  /\ host = HostIdle
  /\ duo = [ on    |-> TRUE,
             store |-> initialise,
             inst  |-> [i \in Instances |-> DuoConstructed(i)],
             bus   |-> [b \in Buses |-> BusSilent],
             out   |-> [i \in Instances |-> <<>>],
             solo  |-> [i \in Instances |-> [inst |-> DuoConstructed(i), out |-> <<>>]],
             call  |-> <<"construct", 0>> ]
  /\ seq = SeqOff

NextDuo ==
  \/ \E i \in Instances : \E n \in 1..MaxFramesBy4 : DuoStep(i, n)
  \/ \E i \in Instances : \E raw \in DuoBusVals : DuoSetXOut(i, raw)

SpecDuo == InitDuo /\ [][NextDuo]_vars

\* ------------------------------------- the MIDI pattern generator (plugin.cpp)

MAX_SEQS == 16

MAX_STEPS == 16

\* enum { IDX_RANDOMIZE, IDX_INCLUDE_BASE = 1, IDX_MIDI_OUT = IDX_INCLUDE_BASE + MAX_SEQS,
\*        IDX_BPM, IDX_CLOCK_BUS, IDX_PARAM_BASE };
IDX_RANDOMIZE == 0

IDX_INCLUDE_BASE == 1

IDX_MIDI_OUT == IDX_INCLUDE_BASE + MAX_SEQS

IDX_BPM == IDX_MIDI_OUT + 1

IDX_CLOCK_BUS == IDX_BPM + 1

IDX_PARAM_BASE == IDX_CLOCK_BUS + 1

\* enum DirMode { FWD, BWD, RND };
FWD == 0

BWD == 1

RND == 2

\* r.numParameters = 80: parameterChanged is called with p in 0..79.
numParameters == 80

\* The least value RAND_MAX may have; rand() returns a value in 0..RAND_MAX.
RAND_MAX == 32767

INT_MAX == 2147483647

INT_MIN == -INT_MAX - 1

\* The parameter changes that are tried, as <<p, v[p]>>: Randomise on, BPM 0
\* (range 0..400), Steps (1..16), Div (1..32), Range (0..127) and Dir (0..2)
\* of the first sequence, and Steps of the last sequence that has parameters.
ParamTried ==
  { <<IDX_RANDOMIZE, 1>>, <<IDX_BPM, 0>>,
    <<IDX_PARAM_BASE + 0, 3>>, <<IDX_PARAM_BASE + 1, 2>>, <<IDX_PARAM_BASE + 2, 0>>,
    <<IDX_PARAM_BASE + 3, BWD>>, <<IDX_PARAM_BASE + 3, RND>>,
    <<numParameters - 4, 1>> }

\* The values rand() starts from, the number of clock ticks a run is followed
\* for, and the largest clockCounter followed.
RandVals == {126, RAND_MAX}

MaxTicks == 2

MaxClock == 113

\* rand(): call k of a run that started from r. (The generator is
\* deterministic; what it returns is not known, so it is followed as a
\* sequence of successive values from a starting point that is chosen, and
\* seq.rnd counts the calls made.)
Rand(r, k) == (r + k) % (RAND_MAX + 1)

\* What the build's conversion of a float to int gives for a value no int
\* holds: INT_MAX where it saturates, INT_MIN where it does not.
Conversions == {INT_MAX, INT_MIN}

\* int interval = (int)(NT_globals.sampleRate / (bpm / 60.0f * 16.0f) / 4);
\* the interval, and the divisor freq (in units of 1/60). With bpm = 0 the
\* quotient is not a number an int holds, and the build's conversion decides.
Interval(bpm, conv) ==
  IF bpm * 16 = 0
    THEN [interval |-> conv, divisor |-> 0]
    ELSE [interval |-> (SampleRate * 60) \div (bpm * 16 * 4), divisor |-> bpm * 16]

\* SeqData with a plausible defect: the modulo by range + 1 is missing.
SeqDataUnreduced(s, r) == r

\* rand() % (s.range + 1)
SeqData(s, r) == r % (s.range + 1)

\* SeqAdvance with a plausible defect: forward steps wrap at MAX_STEPS + 1.
SeqAdvanceLate(s, r) ==
  IF s.dir = FWD THEN (s.pos + 1) % (MAX_STEPS + 1)
  ELSE IF s.dir = BWD THEN (s.pos + s.steps - 1) % s.steps
  ELSE r % s.steps

\* if (s.dir == FWD) s.pos = (s.pos + 1) % s.steps;
\* else if (s.dir == BWD) s.pos = (s.pos + s.steps - 1) % s.steps;
\* else if (s.dir == RND) s.pos = rand() % s.steps;
SeqAdvance(s, r) ==
  IF s.dir = FWD THEN (s.pos + 1) % s.steps
  ELSE IF s.dir = BWD THEN (s.pos + s.steps - 1) % s.steps
  ELSE IF s.dir = RND THEN r % s.steps
  ELSE s.pos

\* The body of the loop over ch for one sequence, when its divCounter reaches
\* div: the data written, the note sent, and the sequence after the advance.
\* r1 and r2 are the results of the two calls of rand().
SeqFire(s, write, r1, r2) ==
  LET idx  == s.pos
      data == IF write THEN [s.data EXCEPT ![idx] = SeqData(s, r1)] ELSE s.data
      s1   == [s EXCEPT !.divCounter = 0, !.data = data]
  IN  [ seq  |-> [s1 EXCEPT !.pos = SeqAdvance(s1, r2)],
        sent |-> [ idx |-> idx, inData |-> idx \in DOMAIN s.data,
                   note |-> IF idx \in DOMAIN data THEN data[idx] ELSE -1,
                   mods |-> (IF write THEN {s.range + 1} ELSE {})
                              \cup (IF s.dir = RND \/ s.dir = FWD \/ s.dir = BWD THEN {s.steps} ELSE {}) ] ]

\* One pass of the loop over ch at a clock tick, r calls of rand() having
\* been made: call r + 2 * ch is the data of sequence ch, call r + 2 * ch + 1
\* its random position.
SeqTick(p, r) ==
  LET fires(ch) == p.seqs[ch].divCounter + 1 >= p.seqs[ch].div
      out(ch)   == SeqFire(p.seqs[ch], p.randomise /\ p.includes[ch],
                           Rand(r, 2 * ch), Rand(r, 2 * ch + 1))
  IN  [ seqs |-> [ch \in 0..(MAX_SEQS - 1) |->
                    IF fires(ch) THEN out(ch).seq
                    ELSE [p.seqs[ch] EXCEPT !.divCounter = p.seqs[ch].divCounter + 1]],
        sent |-> [ch \in {c \in 0..(MAX_SEQS - 1) : fires(c)} |-> out(ch).sent] ]

\* Plugin::step
SeqStep ==
  /\ seq.on
  /\ seq.clockCounter < MaxClock
  /\ seq.ticks < MaxTicks
  /\ LET iv == Interval(seq.bpm, seq.conv) IN
     IF seq.clockCounter + 1 >= iv.interval
       THEN seq' = [seq EXCEPT !.clockCounter = 0,
                                  !.seqs = SeqTick(seq, seq.rnd).seqs,
                                  !.sent = SeqTick(seq, seq.rnd).sent,
                                  !.rnd = seq.rnd + 2 * MAX_SEQS,
                                  !.divisor = iv.divisor,
                                  !.ticks = seq.ticks + 1,
                                  !.call = "step"]
       ELSE seq' = [seq EXCEPT !.clockCounter = seq.clockCounter + 1,
                               !.sent = <<>>,
                               !.divisor = iv.divisor,
                               !.call = "step"]
  /\ UNCHANGED <<exactVars, f32, host, duo>>

\* parameterChanged(algo, p), the host having stored val in v[p]
SeqParameterChanged(p, val) ==
  LET ch    == (p - IDX_PARAM_BASE) \div 4
      field == (p - IDX_PARAM_BASE) % 4
      s     == seq.seqs[ch]
  IN  /\ seq.on
      /\ seq' = [ (IF p = IDX_RANDOMIZE THEN [seq EXCEPT !.randomise = (val # 0)]
                   ELSE IF p >= IDX_INCLUDE_BASE /\ p < IDX_INCLUDE_BASE + MAX_SEQS
                     THEN [seq EXCEPT !.includes[p - IDX_INCLUDE_BASE] = (val # 0)]
                   ELSE IF p >= IDX_PARAM_BASE
                     THEN [seq EXCEPT !.seqs[ch] =
                             IF field = 0 THEN [s EXCEPT !.steps = val]
                             ELSE IF field = 1 THEN [s EXCEPT !.div = val]
                             ELSE IF field = 2 THEN [s EXCEPT !.range = val]
                             ELSE [s EXCEPT !.dir = val]]
                   ELSE seq)
                  EXCEPT !.bpm = IF p = IDX_BPM THEN val ELSE seq.bpm,
                         !.call = "parameterChanged" ]
      /\ UNCHANGED <<exactVars, f32, host, duo>>

\* A parameter change is tried in the last call-free moment before a clock
\* tick: the next call of step() reaches the interval. (What a change does is
\* read at the tick only; when before the tick it arrived is not observable.)
SeqChange(p, val) ==
  /\ seq.on
  /\ seq.ticks < MaxTicks
  /\ seq.clockCounter + 1 >= Interval(seq.bpm, seq.conv).interval
  /\ SeqParameterChanged(p, val)

\* construct(), rand() started from r; the host's v[IDX_BPM] is 400.
InitSeq ==
  /\ plugin = "poly5"
  /\ phase = 0
  /\ freq_Hz = 50
  /\ solidParam = 0
  /\ blankWindow_us = 10
  /\ blankPhase_us = 0
  /\ blk = NoBlock
  /\ tick = 0
  /\ scan = ScanOff
  /\ amp = AmpInit
  /\ ampLog = <<>>
  /\ rot = RotInit(plugin)
  /\ xyLog = XYOff
  /\ quant = QuantOff
  /\ split = SplitOff
  /\ f32 = F32Off
  /\ host = HostIdle
  /\ duo = DuoOff
  /\ \E r \in RandVals : \E c \in Conversions :
       seq = [ on |-> TRUE, conv |-> c, bpm |-> 400, clockCounter |-> 0, randomise |-> FALSE,
               includes |-> [i \in 0..(MAX_SEQS - 1) |-> TRUE],
               seqs |-> [i \in 0..(MAX_SEQS - 1) |->
                           [ steps |-> 16, div |-> 1, range |-> 127, dir |-> FWD,
                             pos |-> 0, divCounter |-> 0,
                             data |-> [j \in 0..(MAX_STEPS - 1) |->
                                         Rand(r, i * MAX_STEPS + j) % 128] ]],
               rnd |-> r + MAX_SEQS * MAX_STEPS,
               sent |-> <<>>, divisor |-> 1, ticks |-> 0, call |-> "construct" ]

NextSeq ==
  \/ SeqStep
  \/ \E pv \in ParamTried : SeqChange(pv[1], pv[2])

SpecSeq == InitSeq /\ [][NextSeq]_vars

\* ------------------------------------------------------- shared vocabulary

\* The samples of the block that the most recent step() call processed.
Samples == {blk.s[j] : j \in 1..blk.n}

\* The selected solid's tables, as step() addresses them.
SelSolid == SolidIndex(solidParam)

OrderOf(sol, i) == sharedEulerOrder[eulerOffsetAll[sol] + i]

\* ----------------------------------------------------------------------- C1
\* C1: every sample step() resolves has an edge index idx = floor(phase * L)
\* with 0 <= idx < L and a fraction frac = phase * L - idx with 0 <= frac < 1,
\* for the L of either plugin; a sample at phase 0 has idx 0 and frac 0.
C1_EdgeResolverBounds ==
  \A x \in Samples :
    /\ 0 <= x.idx /\ x.idx < blk.eLen
    /\ x.idx * One <= x.phase * blk.eLen
    /\ x.phase * blk.eLen < (x.idx + 1) * One
    /\ x.frac = x.phase * blk.eLen - x.idx * One
    /\ 0 <= x.frac /\ x.frac < One
    /\ (x.phase = 0 => x.idx = 0 /\ x.frac = 0)

\* A block that resolves the last position of the order and, after the wrap,
\* the phase 0.
C1_Witness ==
  /\ \E x \in Samples : x.idx = blk.eLen - 1 /\ x.frac > 0
  /\ \E x \in Samples : x.phase = 0

\* ----------------------------------------------------------------------- C2
\* C2: the stored phase, and the phase of every sample, is in [0,1); each
\* sample adds freq/sampleRate to the phase before it and subtracts exactly
\* 1.0 once when the sum reaches or exceeds 1.0.
C2_PhaseInUnitInterval ==
  /\ 0 <= phase /\ phase < One
  /\ \A x \in Samples : 0 <= x.phase /\ x.phase < One
  /\ \A j \in 2..blk.n :
       LET sum == blk.s[j - 1].phase + PhaseInc(freq_Hz)
       IN  blk.s[j].phase = IF sum >= One THEN sum - One ELSE sum
  /\ blk.n > 0 => phase = blk.s[blk.n].phase

\* A block at 1000 Hz, after a Frequency change, in which the sum reached
\* exactly 1.0 and in the same block a sample's phase is above 0 again.
C2_Witness ==
  /\ freq_Hz = 1000
  /\ \E j \in 2..blk.n :
       /\ blk.s[j - 1].phase + PhaseInc(freq_Hz) = One
       /\ blk.s[j].phase = 0
  /\ phase > 0

\* ----------------------------------------------------------------------- C3
\* C3: in the five-solid plugin, whenever the pen passes from one position of
\* the traversal order to the next (cyclically), the end vertex of the edge it
\* leaves is the start vertex of the edge it enters.
C3_NoJumpTraversal ==
  plugin = "poly5" =>
    \A j \in 2..blk.n :
      blk.s[j].idx = (blk.s[j - 1].idx + 1) % blk.eLen
        => blk.s[j].vA = blk.s[j - 1].vB

\* ----------------------------------------------------------------------- C4
\* C4: in the five-solid plugin every vertex index read from the edge table is
\* a vertex of the selected solid (0 <= v < numVerts[s]), so the vertex table
\* is read inside the solid's range and inside the 76 vertices; the reads of
\* the order table and of the edge table stay inside the solid's ranges.
C4_LookupsInsideSolid ==
  plugin = "poly5" =>
    \A x \in Samples :
      /\ 0 <= x.vA /\ x.vA < numVertsArr[SelSolid]
      /\ 0 <= x.vB /\ x.vB < numVertsArr[SelSolid]
      /\ x.vertA < totalVerts /\ x.vertB < totalVerts
      /\ eulerOffsetAll[SelSolid] <= x.orderAt
      /\ x.orderAt < eulerOffsetAll[SelSolid] + eulerLengthAll[SelSolid]
      /\ edgeOffsetAll[SelSolid] <= x.edgeAt
      /\ x.edgeAt < edgeOffsetAll[SelSolid] + numEdgesAll[SelSolid]

\* ----------------------------------------------------------------------- C5
\* C5: the traversal order stored for the selected solid, of edge count L,
\* holds every edge id 0..L-1 exactly once.
C5_OrderIsPermutation ==
  plugin = "poly5" =>
    LET L == numEdgesArr[SelSolid]
    IN  /\ eulerLengthAll[SelSolid] = L
        /\ \A e \in 0..(L - 1) :
             Cardinality({i \in 0..(L - 1) : OrderOf(SelSolid, i) = e}) = 1
        /\ \A x \in Samples : x.edgeID \in 0..(L - 1)

\* The rhombic icosahedron is selected and its last position was resolved.
C5_Witness ==
  /\ plugin = "poly5" /\ SelSolid = 3
  /\ \E x \in Samples : x.idx = 29 /\ x.edgeID = 29

\* ----------------------------------------------------------------------- C6

\* Coordinate c of raw cube vertex v.
CubeCoord(v, c) == rawCubeVerts[v * 3 + c]

\* Two cube vertices joined by an edge of the cube: they differ in one coordinate.
IsCubeEdge(a, b) ==
  Cardinality({c \in 0..2 : CubeCoord(a, c) # CubeCoord(b, c)}) = 1

\* C6: the 16 cube segments form one closed chain, the segments flagged draw
\* are exactly the 12 edges of the cube, each once, and every segment not
\* flagged draw joins two vertices that are not an edge (a reposition move).
C6_CubeSegmentPath ==
  plugin = "cube" =>
    LET segs    == DOMAIN cubeSegments
        drawn   == {i \in segs : cubeSegments[i].draw # 0}
        pair(i) == {cubeSegments[i].a, cubeSegments[i].b}
        cubeEdges == {p \in {{a, b} : a, b \in 0..7} :
                        \E a, b \in p : IsCubeEdge(a, b)}
    IN  /\ numSegments = 16
        /\ \A i \in segs : cubeSegments[i].b = cubeSegments[(i + 1) % numSegments].a
        /\ Cardinality(cubeEdges) = 12
        /\ {pair(i) : i \in drawn} = cubeEdges
        /\ Cardinality(drawn) = 12
        /\ \A i \in segs \ drawn : pair(i) \notin cubeEdges
        /\ \A x \in Samples : x.draw = 0 => ~IsCubeEdge(x.vA, x.vB)

\* The cube plugin resolved a segment that is not drawn.
C6_Witness ==
  /\ plugin = "cube"
  /\ \E x \in Samples : x.draw = 0 /\ x.idx = 9 /\ x.vA = 4 /\ x.vB = 1

\* ----------------------------------------------------------------------- C7

\* The samples of the octahedron scenario: poly5, BlankWindow = 0, BlankPhase = 0,
\* freq/sampleRate = 1/N with N a multiple of L, and the sample is one of the
\* first N after the phase was 0.
InScenario(x) ==
  /\ plugin = "poly5"
  /\ blankWindow_us = 0 /\ blankPhase_us = 0
  /\ CycleLen(freq_Hz) > 0 /\ CycleLen(freq_Hz) % blk.eLen = 0
  /\ 1 <= x.t /\ x.t <= CycleLen(freq_Hz)

\* Samples per edge in the scenario: N / L.
RunLen == CycleLen(freq_Hz) \div blk.eLen

C8_ShiftWrapped ==
  \A x \in Samples :
    /\ 0 <= x.fShift /\ x.fShift < One
    /\ (x.frac + blk.shiftFrac - x.fShift) % One = 0

\* ----------------------------------------------------------------------- C9

\* The blank fraction step() would compute from window w in the present state.
BlankFracFor(w) ==
  BlankFrac(w, BlankRefFreq(plugin, freq_Hz), ELen(plugin, solidParam))

\* The intensity step() would write for sample x with blank fraction bf.
IntensityFor(x, bf) ==
  IF plugin = "cube" THEN CubeIntensity(x.draw, x.fShift, bf)
                     ELSE PolyIntensity(x.fShift, bf)

\* C9: blankFrac is non-decreasing in BlankWindow and never above 0.5, and a
\* sample that is dark with window w1 is dark with every window w2 >= w1
\* (shift, frequency and solid fixed).
C9_BlankingMonotone ==
  /\ \A w \in BlankWindowVals : BlankFracFor(w) <= Half
  /\ blk.blankFrac <= Half
  /\ \A w1, w2 \in BlankWindowVals :
       w1 <= w2 =>
         /\ BlankFracFor(w1) <= BlankFracFor(w2)
         /\ \A x \in Samples :
              IntensityFor(x, BlankFracFor(w1)) = IntensityOff
                => IntensityFor(x, BlankFracFor(w2)) = IntensityOff
  /\ \A x \in Samples : x.Iout = IntensityFor(x, blk.blankFrac)

\* A block at a saturated window (the product is above 0.5) in which a sample
\* is lit with the smaller window 10 us and dark with the window in force.
C9_Witness ==
  /\ blankWindow_us = 1000
  /\ blk.n > 0 /\ blk.blankFrac = Half
  /\ 1000 * BlankRefFreq(plugin, freq_Hz) * blk.eLen * (One \div Micro) > Half
  /\ \E x \in Samples :
       /\ x.Iout = IntensityOff /\ x.draw # 0
       /\ IntensityFor(x, BlankFracFor(10)) = IntensityOn

\* ---------------------------------------------------------------------- C10
\* C10: every sample step() writes to the intensity bus is exactly 0.0 or 5.0,
\* in both plugins.
C10_IntensityTwoValued ==
  \A x \in Samples : x.Iout \in {IntensityOff, IntensityOn}

\* A block of the cube plugin that wrote both levels.
C10_Witness ==
  /\ plugin = "cube"
  /\ \E x \in Samples : x.Iout = IntensityOn
  /\ \E x \in Samples : x.Iout = IntensityOff

\* ---------------------------------------------------------------------- C11
\* C11: in the cube plugin a sample on a segment not flagged draw is dark
\* whatever the blank window, blank phase, frequency and fraction are, and a
\* sample on a segment flagged draw is dark exactly when the timing test
\* fShift < blankFrac or fShift > 1 - blankFrac holds.
C11_UndrawnAlwaysDark ==
  plugin = "cube" =>
    \A x \in Samples :
      /\ x.draw = 0 => x.Iout = IntensityOff
      /\ x.draw # 0 =>
           (x.Iout = IntensityOff
              <=> (x.fShift < blk.blankFrac \/ x.fShift > One - blk.blankFrac))

\* A cube block with a dark sample on an undrawn segment for which the timing
\* test does not hold, at the fast frequency and with a shifted window.
C11_Witness ==
  /\ plugin = "cube" /\ freq_Hz = 1000 /\ blankPhase_us # 0
  /\ \E x \in Samples :
       /\ x.draw = 0 /\ x.Iout = IntensityOff
       /\ ~(x.fShift < blk.blankFrac \/ x.fShift > One - blk.blankFrac)

\* ---------------------------------------------------------------------- C12
\* C12: the two plugins differ in the frequency the blank fractions are taken
\* from. In poly5 blankFrac and shiftFrac are the products with the live
\* frequency (proportional to freq_Hz, blankFrac saturating at 0.5); in the
\* cube plugin they are the products with the fixed 50 Hz, whatever the
\* Frequency parameter is.
C12_BlankReference ==
  blk.n > 0 =>
    LET perHz == blk.eLen * (One \div Micro)
        cap(b) == IF b > Half THEN Half ELSE b
    IN  /\ plugin = "poly5" =>
             /\ blk.blankFrac = cap(blankWindow_us * freq_Hz * perHz)
             /\ blk.shiftFrac = blankPhase_us * freq_Hz * perHz
        /\ plugin = "cube" =>
             /\ blk.blankFrac = cap(blankWindow_us * 50 * perHz)
             /\ blk.shiftFrac = blankPhase_us * 50 * perHz

\* A cube block at 1000 Hz whose fractions are those of 50 Hz: a window of
\* 10 us gives 0.008 and the shift is not zero.
C12_Witness ==
  /\ plugin = "cube" /\ freq_Hz = 1000 /\ blankWindow_us = 10
  /\ blk.n > 0 /\ blk.blankFrac = 8 * (One \div 1000) /\ blk.shiftFrac # 0

\* ---------------------------------------------------------------------- C13

\* Samples per cube segment at frequency f (sampleRate / (f * 16)).
SamplesPerSegment(f) == CycleLen(f) \div numSegments

\* The number of the sample fractions k/S of one segment, S the samples per
\* segment at frequency f, that fall inside the blank window of the last block.
DarkPerBoundary(f) ==
  LET S == SamplesPerSegment(f)
  IN  Cardinality({k \in 0..(S - 1) :
        LET fs == (k * (One \div S) + blk.shiftFrac) % One
        IN  fs < blk.blankFrac \/ fs > One - blk.blankFrac})

\* C13, as claimed: in the cube plugin the number of consecutive dark samples
\* around a boundary between drawn segments is the same at every frequency:
\* the number found at 50 Hz.
C13_DarkSamples_Claimed ==
  (plugin = "cube" /\ scan.done >= 0) => scan.done = DarkPerBoundary(50)

\* C13, amended: the blank fraction of each segment is the same at every
\* frequency, so a boundary between drawn segments is surrounded by as many
\* dark samples as sample fractions fall inside that fraction of a segment:
\* the count shrinks as the frequency grows.
C13_DarkSamples ==
  (plugin = "cube" /\ blk.n > 0) =>
    /\ blk.blankFrac = BlankFrac(blankWindow_us, 50, numSegments)
    /\ scan.done >= 0 => scan.done = DarkPerBoundary(freq_Hz)
    /\ (blankWindow_us = 100 /\ scan.done >= 0) =>
         scan.done = IF freq_Hz = 50 THEN 9 ELSE 1

\* A cube run at 1000 Hz with a window of 100 us that has passed a boundary
\* between two drawn segments: one sample was dark there.
C13_Witness ==
  /\ plugin = "cube" /\ freq_Hz = 1000 /\ blankWindow_us = 100
  /\ scan.done = 1
  /\ \E x \in Samples : x.draw # 0 /\ x.Iout = IntensityOn

\* ---------------------------------------------------------------------- C14

\* The worked example: the octahedron (L = 12) of poly5 at the reference
\* frequency 50 Hz with BlankWindow = 500 us, and a block was processed.
InExample ==
  /\ plugin = "poly5" /\ SelSolid = 0 /\ blk.n > 0 /\ blk.eLen = 12
  /\ freq_Hz = 50 /\ blankWindow_us = 500

\* C14, as claimed: in the worked example step() computes the blank fraction
\* 0.0003.
C14_Example_Claimed == InExample => blk.blankFrac = 3 * (One \div 10000)

\* C14, amended: in the worked example step() computes the blank fraction
\* 500 * 1e-6 * 50 * 12 = 0.3, which is below the saturation cap 0.5.
C14_Example == InExample => blk.blankFrac = 3 * (One \div 10) /\ blk.blankFrac < Half

\* A block of the worked example with a dark sample inside the window and a
\* lit sample outside it.
C14_Witness ==
  /\ InExample
  /\ \E x \in Samples : x.Iout = IntensityOff /\ x.fShift < 3 * (One \div 10)
  /\ \E x \in Samples : x.Iout = IntensityOn

\* ---------------------------------------------------------------------- C19
\* C19: a Solid value v in 0..499 selects the solid floor(v / 100), at most 4
\* (0..99 octahedron, 100..199 cuboctahedron, 200..299 rhombic dodecahedron,
\* 300..399 icosahedron, 400..499 truncated octahedron); a Solid change leaves
\* the phase as it is, and the next block resolves its samples from that
\* phase against the edge count of the solid now selected.
C19_SolidSelection ==
  [][plugin = "poly5" =>
       LET sel == CHOOSE k \in 0..4 : 100 * k <= solidParam' /\ solidParam' <= 100 * k + 99
           len == <<12, 24, 24, 30, 36>>[sel + 1]
           ph1 == (phase + PhaseInc(freq_Hz)) % One
       IN  /\ solidParam' # solidParam => phase' = phase
           /\ blk'.n > 0 =>
                /\ blk'.eLen = len
                /\ blk'.s[1].phase = ph1
                /\ blk'.s[1].idx = (ph1 * len) \div One
                /\ blk'.s[1].edgeAt = edgeOffsetAll[sel] + blk'.s[1].edgeID]_vars

\* A block on the icosahedron, selected by Solid = 399 while the phase was
\* not 0: its first sample resolves an edge past the first.
C19_Witness ==
  /\ plugin = "poly5" /\ solidParam = 399 /\ tick = -1
  /\ blk.n > 0 /\ blk.eLen = 30 /\ blk.s[1].idx > 0

\* ---------------------------------------------------------------------- C16

\* The multiplier values 0.0, 1.0 and 2.0 in units of 1/(127 * AmpOne).
MulOne == 127 * AmpOne

MulTwo == 2 * MulOne

\* The square-wave scenario: AmpWave = Square, AmpMod = 127, AmpCorse = 3
\* (factor 1), AmpFine = 0, and a block was processed.
InSquare ==
  /\ plugin = "cube" /\ Len(ampLog) > 0
  /\ amp.wave = 0 /\ amp.mod = 127 /\ amp.corse = 3 /\ amp.fine = 0

\* a / One = b / AmpOne, for a phase step a of the pen and b of the modulator.
SameRate(a, b) ==
  LET g == GCD(One, AmpOne) IN a * (AmpOne \div g) = b * (One \div g)

\* C16: in the square-wave scenario the multiplier of every sample is exactly
\* 0.0 or 2.0 (2.0 in the first half of the modulator's cycle) and the
\* modulator advances by the pen's phase step at every sample, so it
\* alternates once per draw cycle; for every depth d = AmpMod / 127 and every
\* waveform the multiplier is within [1 - d, 1 + d], inside [0, 2].
C16_AmpMultiplier ==
  plugin = "cube" =>
    /\ InSquare =>
         /\ \A j \in 1..Len(ampLog) :
              LET m == ampLog[j]
                  p == (m.ampPhase + AmpPhaseOffset(amp.phaseDeg)) % AmpOne
              IN  /\ m.lo = m.hi /\ m.lo \in {0, MulTwo}
                  /\ m.lo = MulTwo <=> p < AmpHalf
         /\ \A j \in 2..Len(ampLog) :
              SameRate((blk.s[j].phase - blk.s[j - 1].phase) % One,
                       (ampLog[j].ampPhase - ampLog[j - 1].ampPhase) % AmpOne)
    /\ \A j \in 1..Len(ampLog) :
         /\ (127 - amp.mod) * AmpOne <= ampLog[j].lo
         /\ ampLog[j].lo <= ampLog[j].hi
         /\ ampLog[j].hi <= (127 + amp.mod) * AmpOne
         /\ 0 <= ampLog[j].lo /\ ampLog[j].hi <= MulTwo
         /\ \A w \in 0..4 : \A d \in AmpModVals \cup {0} :
              LET m == AmpSample([amp EXCEPT !.wave = w, !.mod = d], ampLog[j].ampPhase)
              IN  (127 - d) * AmpOne <= m.lo /\ m.lo <= m.hi /\ m.hi <= (127 + d) * AmpOne

\* A block of the square-wave scenario in which the multiplier was 2.0 and,
\* after the middle of the modulator's cycle, 0.0.
C16_Witness ==
  /\ InSquare
  /\ \E j \in 1..Len(ampLog) : ampLog[j].lo = MulTwo
  /\ \E j \in 1..Len(ampLog) : ampLog[j].hi = 0

\* ---------------------------------------------------------------------- C17
\* C17: the coarse factor is 1/4, 1/3, 1/2 and 1 for the indices 0..3 and
\* index - 2 for the indices 4..34, which is the number on the labels x2..x32
\* of those indices; the modulator advances by freq times that factor (plus
\* the fine offset) over the sample rate at every sample.
C17_CourseFactor ==
  plugin = "cube" =>
    LET claimed(i) == IF i = 0 THEN 3 ELSE IF i = 1 THEN 4 ELSE IF i = 2 THEN 6
                      ELSE IF i = 3 THEN 12 ELSE 12 * (i - 2)
    IN  /\ DOMAIN modCourseStrings = 0..34
        /\ \A i \in 0..34 : getCourseFactor(i) = claimed(i)
        /\ \A i \in 4..34 :
             /\ modCourseStrings[i][1] = "x"
             /\ modCourseStrings[i][2] \in 2..32
             /\ getCourseFactor(i) = 12 * modCourseStrings[i][2]
        /\ \A j \in 2..Len(ampLog) :
             (ampLog[j].ampPhase - ampLog[j - 1].ampPhase) % AmpOne
               = (5 * freq_Hz * claimed(amp.corse) + 6 * amp.fine) % AmpOne

\* A block with AmpCorse = 1: the modulator advanced by a third of the pen's
\* step at each sample.
C17_Witness ==
  /\ plugin = "cube" /\ amp.corse = 1 /\ Len(ampLog) > 1
  /\ 3 * (ampLog[2].ampPhase - ampLog[1].ampPhase) = 60 * freq_Hz

\* ---------------------------------------------------------------------- C18

\* The cached sines and cosines of all three axes are (0, 1).
ZeroAngles ==
  /\ rot.sinX = 0 /\ rot.cosX = 1
  /\ rot.sinY = 0 /\ rot.cosY = 1
  /\ rot.sinZ = 0 /\ rot.cosZ = 1

\* C18: when the cached (sin, cos) of all three axes are (0, 1), the rotated
\* point of every sample is its interpolated point P, and in orthographic
\* mode the X and Y outputs are 5.0 * Px and 5.0 * Py, whatever Pz is.
C18_ZeroRotationIdentity ==
  (plugin = "poly5" /\ ZeroAngles) =>
    \A j \in 1..Len(xyLog.s) :
      LET m == xyLog.s[j]
          a(k) == rawVertsAll[m.vertA * 3 + k]
          b(k) == rawVertsAll[m.vertB * 3 + k]
          p(k) == (One - m.frac) * a(k) + m.frac * b(k)
      IN  /\ m.P = [x |-> p(0), y |-> p(1), z |-> p(2)]
          /\ m.R = m.P
          /\ rot.projectionMode = 0 =>
               /\ m.X = [v |-> 5 * p(0), num |-> 1, den |-> 1]
               /\ m.Y = [v |-> 5 * p(1), num |-> 1, den |-> 1]

\* An orthographic block at zero angles with a sample inside an edge, off
\* the plane z = 0, whose X output is not 0.
C18_Witness ==
  /\ plugin = "poly5" /\ ZeroAngles /\ rot.projectionMode = 0
  /\ \E j \in 1..Len(xyLog.s) :
       LET m == xyLog.s[j]
       IN  m.frac > 0 /\ m.P.z # 0 /\ m.X.v # 0 /\ m.X.v = 5 * m.P.x

\* ---------------------------------------------------------------------- C15

\* The distance of two phases around the unit circle.
FDist(a, b) == LET d == IF a > b THEN a - b ELSE b - a IN IF d > FOne - d THEN FOne - d ELSE d

\* C15, as claimed: when freq/sampleRate is exactly 1/N, N samples after the
\* phase was p the phase is p again.
C15_Periodic_Claimed == f32.ret.n > 0 => f32.ret.p = f32.ret.p0

\* C15, amended: when freq/sampleRate is exactly 1/N, N samples after the
\* phase was p the phase is within 2^-23 of p (around the unit circle), and
\* it is p exactly when p is a multiple of 2^-23, as the constructed phase 0
\* and every phase reached from it at such a frequency are.
C15_Periodic ==
  f32.ret.n > 0 =>
    /\ FDist(f32.ret.p, f32.ret.p0) < 2^7
    /\ f32.ret.p0 % 2^7 = 0 => f32.ret.p = f32.ret.p0

\* After a Frequency change at a phase that is not a multiple of 2^-23, the
\* 128 samples of a cycle at 375 Hz end next to the phase they began at.
C15_Witness ==
  /\ f32.changed /\ f32.freq = 375 /\ f32.ret.n = 128
  /\ f32.ret.p0 % 2^7 # 0 /\ f32.ret.p # f32.ret.p0

\* ---------------------------------------------------------------------- C20

\* The (sin, cos) pairs parameterChanged caches for the angles tried.
WholePairs == {SinCos(raw) : raw \in RotVals}

\* The cached fields r hold, on every axis, the sine and cosine of one angle.
WhollyUpdated(r) ==
  /\ [sin |-> r.sinX, cos |-> r.cosX] \in WholePairs
  /\ [sin |-> r.sinY, cos |-> r.cosY] \in WholePairs
  /\ [sin |-> r.sinZ, cos |-> r.cosZ] \in WholePairs

\* C20: no sample of a block reads cached fields of which a parameterChanged
\* update has stored only a part (the sine of the new angle beside the cosine
\* of the old), and all samples of one block read the same values.
C20_NoHalfUpdate ==
  \A j \in 1..Len(host.seen) :
    /\ WhollyUpdated(host.seen[j])
    /\ host.seen[j] = host.seen[1]

\* A block in progress whose samples read the values of a rotation by 90
\* degrees about X, stored by a parameterChanged call since construction.
C20_Witness ==
  /\ host.left > 0 /\ Len(host.seen) > 1
  /\ host.seen[1].sinX = 1 /\ host.seen[1].cosX = 0


\* ---------------------------------------------------------------------- C21
\* The transition was a call of step() on instance i.
DuoStepped(i) == duo'.call = <<"step", i>>

\* C21: a step() of an instance changes that instance's phase and the buses
\* it selected, and nothing else: the Geometry Store, every other field of the
\* instance and the other instance are unchanged; and what the instance wrote
\* to its buses and stored as phase is what it writes and stores when it runs
\* alone.
C21_StateConfinement ==
  [][\A i \in Instances :
       DuoStepped(i) =>
         LET r == duo.inst[i]
             sel == {r.xOutBus, r.yOutBus, r.iOutBus}
         IN  /\ duo'.store = duo.store
             /\ \A k \in Instances \ {i} : duo'.inst[k] = duo.inst[k] /\ duo'.out[k] = duo.out[k]
             /\ [duo'.inst[i] EXCEPT !.phase = r.phase] = r
             /\ \A b \in Buses \ sel : duo'.bus[b] = duo.bus[b]
             /\ \A b \in sel : duo'.bus[b].by = i
             /\ duo'.out[i] = duo'.solo[i].out
             /\ duo'.inst[i] = duo'.solo[i].inst]_vars

\* The second instance stepped last, between blocks of the first: the phases
\* of the two differ, the second wrote X to a bus of its own, and the other
\* buses it selected are the ones the first instance wrote before.
C21_Witness ==
  /\ duo.on
  /\ duo.call = <<"step", 2>>
  /\ duo.inst[1].phase > 0
  /\ duo.inst[2].phase > 0
  /\ duo.inst[1].phase # duo.inst[2].phase
  /\ duo.inst[2].xOutBus = 0
  /\ duo.bus[0] = [axis |-> "X", by |-> 2]
  /\ duo.bus[12] = [axis |-> "X", by |-> 1]
  /\ duo.bus[14] = [axis |-> "I", by |-> 2]


\* ---------------------------------------------------------------------- C22
\* The checks of a Geometry Store: every byte of the edge and order tables
\* inside a solid's range was written, every vertex index of a solid's edges
\* is one of its vertices, and every traversal order is a permutation of the
\* solid's edges.
StoreWellFormed(st) ==
  \A sol \in 0..4 :
    LET eLen == numEdgesAll[sol]
        eOff == edgeOffsetAll[sol]
        uOff == eulerOffsetAll[sol]
    IN  /\ eulerLengthAll[sol] = eLen
        /\ \A k \in 0..(2 * eLen - 1) :
             /\ (eOff * 2 + k) \in DOMAIN st.edges
             /\ st.edges[eOff * 2 + k] \in 0..(numVertsArr[sol] - 1)
        /\ \A k \in 0..(eLen - 1) : (uOff + k) \in DOMAIN st.order
        /\ {st.order[uOff + k] : k \in 0..(eLen - 1)} = 0..(eLen - 1)

\* C22: a Geometry Store that violates its invariants is rejected before the
\* first step(): whenever an instance has run step(), initialise() reported
\* no failure, and the store it left passes the checks.
C22_MalformedRejected ==
  (duo.on /\ duo.call[1] = "step") => (~duo.store.failed /\ StoreWellFormed(duo.store))


\* ---------------------------------------------------------------------- C23
\* The divisions of the sample m of the cube plugin: the three quantisation
\* divisions and the division of the projection.
QuantDivisions(m) == {m.q[k] : k \in 1..3}

\* C23: no division of the per-sample path has a zero divisor. cameraDist
\* is in [0.111, 10.0]; in perspective mode with normal polarity the divisor
\* is Z + cameraDist, or 0.0001 when that sum is exactly zero; with inverted
\* polarity the divisor is cameraDist; and the quantisation divides by
\* resolution * 0.5 exactly when resolution > 0.
C23_NoZeroDivisor ==
  /\ 111 * (One \div 1000) <= rot.cameraDist /\ rot.cameraDist <= 10 * One
  /\ \A j \in 1..Len(quant.s) :
       LET m  == quant.s[j]
           d0 == Root3(m.Zr.a + rot.cameraDist, m.Zr.b)
       IN  /\ \A q \in QuantDivisions(m) :
                /\ q.used <=> quant.resolution > 0
                /\ q.used => q.div > 0
           /\ m.scale.divides <=> rot.projectionMode = 1
           /\ m.scale.divides => m.scale.den # Root3(0, 0)
           /\ (m.scale.divides /\ rot.polarity = 0) =>
                m.scale.den = IF d0 = Root3(0, 0) THEN Root3(One \div 10000, 0) ELSE d0
           /\ (m.scale.divides /\ rot.polarity = 1) => m.scale.den = Root3(rot.cameraDist, 0)

\* A block in perspective mode with normal polarity and Resolution 1, at
\* Distance 100: the quantised Z of a sample is -1.0, Z + cameraDist is
\* exactly zero and the divisor is 0.0001; and the block has a sample whose
\* divisor is the sum itself.
C23_Witness ==
  /\ quant.on /\ quant.resolution = 1
  /\ rot.projectionMode = 1 /\ rot.polarity = 0 /\ rot.cameraDist = One
  /\ \E j \in 1..Len(quant.s) :
       /\ quant.s[j].Zr = Root3(-One, 0)
       /\ quant.s[j].scale.den = Root3(One \div 10000, 0)
  /\ \E j \in 1..Len(quant.s) : quant.s[j].scale.den = Root3(2 * One, 0)


\* ---------------------------------------------------------------------- C24
\* The modulator frequency before the clamp, times 60 (ampFreq * 60).
AmpFreqRaw == 5 * freq_Hz * getCourseFactor(amp.corse) + 6 * amp.fine

\* C24: the modulator frequency in force is freq * courseFactor + 0.1 * AmpFine
\* when that is not negative and 0 when it is, and the ampPhase stored in the
\* instance and the ampPhase of every sample of a block are in [0,1), each
\* the one before plus ampFreq / fs less the whole part of the sum.
C24_AmpPhaseInRange ==
  plugin = "cube" =>
    /\ AmpInc(freq_Hz, amp.corse, amp.fine) >= 0
    /\ AmpInc(freq_Hz, amp.corse, amp.fine) = IF AmpFreqRaw < 0 THEN 0 ELSE AmpFreqRaw
    /\ 0 <= amp.ampPhase /\ amp.ampPhase < AmpOne
    /\ \A j \in 1..Len(ampLog) : 0 <= ampLog[j].ampPhase /\ ampLog[j].ampPhase < AmpOne
    /\ \A j \in 2..Len(ampLog) :
         ampLog[j].ampPhase
           = (ampLog[j - 1].ampPhase + AmpInc(freq_Hz, amp.corse, amp.fine)) % AmpOne
    /\ Len(ampLog) > 0 => amp.ampPhase = ampLog[Len(ampLog)].ampPhase

\* A block at 1 Hz with AmpCorse "/3" and AmpFine -100 (1/3 - 10 Hz, clamped
\* to 0) during which the modulator's phase stood still above 0.
C24_Witness ==
  /\ plugin = "cube" /\ freq_Hz = 1 /\ amp.corse = 1 /\ amp.fine = -100
  /\ AmpFreqRaw < 0
  /\ Len(ampLog) > 0
  /\ amp.ampPhase > 0
  /\ \A j \in 1..Len(ampLog) : ampLog[j].ampPhase = amp.ampPhase


\* ---------------------------------------------------------------------- C25
\* C25: with BlankWindow = 0 no sample is blanked: in poly5 every sample of a
\* block has the intensity 5.0, whatever BlankPhase, the frequency and the
\* solid; in the cube plugin every sample of a segment with draw = 1 has.
C25_ZeroWindowNeverBlanks ==
  blankWindow_us = 0 =>
    \A x \in Samples : x.draw = 1 => x.Iout = IntensityOn


\* ---------------------------------------------------------------------- C26
\* The last two calls were step(), of n0 then of n1 frames.
TwoBlocks == split.on /\ Len(split.s0) > 0 /\ blk.n > 0

\* Sample j of the single block of Len(split.s0) + blk.n frames that starts
\* from the phase the first of the two blocks started from.
WholeSample(j) ==
  LET ph == PhaseAfter(split.phase0, PhaseInc(freq_Hz), j)
  IN  IF plugin = "cube" THEN CubeSample(ph, blk.blankFrac, blk.shiftFrac, -1)
      ELSE PolySample(ph, solidParam, blk.blankFrac, blk.shiftFrac, -1)

\* Sample j of the two blocks, one after the other.
SplitSample(j) == IF j <= Len(split.s0) THEN split.s0[j] ELSE blk.s[j - Len(split.s0)]

SplitAmpPhase(j) ==
  IF j <= Len(split.a0) THEN split.a0[j].ampPhase ELSE ampLog[j - Len(split.a0)].ampPhase

\* C26: a block of n0 frames followed by a block of n1 frames, no parameter
\* changed in between, gives sample for sample the edge index, fraction and
\* intensity of one block of n0 + n1 frames, and stores the same phase (and
\* ampPhase in the cube plugin).
C26_BlockSplitting ==
  TwoBlocks =>
    LET n == Len(split.s0) + blk.n
    IN  /\ \A j \in 1..n :
             /\ SplitSample(j).idx = WholeSample(j).idx
             /\ SplitSample(j).frac = WholeSample(j).frac
             /\ SplitSample(j).Iout = WholeSample(j).Iout
        /\ phase = PhaseAfter(split.phase0, PhaseInc(freq_Hz), n)
        /\ plugin = "cube" =>
             /\ \A j \in 1..n :
                  SplitAmpPhase(j) = AmpPhaseAfter(split.ampPhase0,
                                                   AmpInc(freq_Hz, amp.corse, amp.fine), j)
             /\ amp.ampPhase = AmpPhaseAfter(split.ampPhase0,
                                             AmpInc(freq_Hz, amp.corse, amp.fine), n)

\* Two blocks of the cube plugin at 1000 Hz, started from a phase above 0:
\* the phase wrapped in the second block, and the edge changed in the first.
C26_Witness ==
  /\ TwoBlocks /\ plugin = "cube" /\ freq_Hz = 1000
  /\ split.phase0 > 0
  /\ split.s0[1].idx # split.s0[Len(split.s0)].idx
  /\ blk.s[blk.n].phase < blk.s[1].phase


\* The sequences that sent a note in the call of step() that just returned.
SeqFired == IF seq.on /\ seq.call = "step" THEN DOMAIN seq.sent ELSE {}

\* C27: after construction and any interleaving of step() with
\* parameterChanged() of Steps, Div, Range and Dir, the position a sequence
\* indexes data[] with is in 0..15, the position is below the current Steps
\* after each advance, and every note sent is in 0..127.
C27_PositionInBounds ==
  seq.on =>
    /\ \A ch \in 0..(MAX_SEQS - 1) : seq.seqs[ch].pos \in 0..(MAX_STEPS - 1)
    /\ \A ch \in SeqFired :
         /\ seq.sent[ch].idx \in 0..(MAX_STEPS - 1)
         /\ seq.sent[ch].inData
         /\ seq.sent[ch].note \in 0..127
         /\ seq.seqs[ch].pos < seq.seqs[ch].steps

\* C27 is exercised: a sequence whose Steps was reduced below its position
\* sent the note at that position, freshly drawn, and moved below Steps, in
\* the same call in which a sequence that still has 16 steps sent a note.
C27_Witness ==
  /\ seq.on
  /\ \E ch \in SeqFired : \E c2 \in SeqFired :
       /\ seq.sent[ch].idx >= seq.seqs[ch].steps
       /\ seq.sent[ch].mods # {seq.seqs[ch].steps}
       /\ seq.seqs[ch].pos < seq.seqs[ch].steps
       /\ seq.seqs[c2].steps = MAX_STEPS
       /\ seq.sent[c2].idx > 0

\* C28: for every BPM in 0..400, step() computes the interval without
\* dividing by zero, and the step modulo and the randomise modulo never have
\* a zero divisor.
C28_NoZeroDivisor ==
  (seq.on /\ seq.call = "step") =>
    /\ seq.divisor # 0
    /\ \A ch \in SeqFired : 0 \notin seq.sent[ch].mods

====
